---- MODULE Spec2Model ----
(***************************************************************************)
(* A model of the synheart-sensor-agent capture and windowing pipeline.    *)
(*                                                                         *)
(*   - the window manager of src/src/core/windowing.rs (WindowManager and  *)
(*     EventWindow), as a sequential state machine driven by its four      *)
(*     public operations;                                                  *)
(*   - the capture backends of src/src/collector/{macos,windows,noop}.rs,  *)
(*     as a caller process (start / stop / try_recv), the capture threads  *)
(*     it spawns and the bounded channel between them;                     *)
(*   - the feature computation of src/src/core/features.rs and the HSI     *)
(*     snapshot builder of src/src/core/hsi.rs;                            *)
(*   - the main loop of src/src/main.rs, the native callbacks and the      *)
(*     event constructors of src/src/collector, and the ingest handler of  *)
(*     src/src/server.rs.                                                  *)
(*                                                                         *)
(* Option<T> is modelled as a sequence of length at most one: <<>> is      *)
(* None and <<x>> is Some(x).  Times are whole seconds in the window       *)
(* manager's own specification and milliseconds elsewhere.                 *)
(***************************************************************************)
EXTENDS Integers, Sequences, FiniteSets, TLC

VARIABLES
    \* ---- WindowManager (windowing.rs:67-78) ----
    window_duration,        \* Duration of each window
    session_gap_threshold,  \* Gap threshold for session boundaries
    current_window,         \* Option<EventWindow>
    completed_windows,      \* Vec<EventWindow>
    last_event_time,        \* Option<DateTime>
    \* ---- history of the calls made on the window manager ----
    wm_call,                \* the last call: [op, t, open, due] (t: the time of the
                            \* event of a process_event; open: whether a window
                            \* was open when the call was made; due: whether an
                            \* expiry check was made at or after the open
                            \* window's end)
    wm_ret,                 \* the Vec returned by the last call (take), else <<>>
    next_id,                \* identity given to the next event processed
    taken_ids,              \* ids of the events in every window handed out by take
    \* ---- Collector (macos.rs:34-40, windows.rs:39-45, noop.rs:46-51) ----
    backend,                \* "macos" | "windows" | "noop"
    config,                 \* CollectorConfig
    running,                \* Arc<AtomicBool>
    thread_handle,          \* Option<JoinHandle>: the index of a thread
    threads,                \* every capture thread spawned so far
    channel,                \* the bounded crossbeam channel
    \* ---- the caller of the collector ----
    caller_pc,              \* "idle" | "start" | "stop" | "stop_join"
    join_target,            \* Option: the thread stop() is joining
    start_result,           \* what the last start() returned
    stopped,                \* stop() has returned and start() has not been
                            \* called since
    \* ---- the consumer loop of main.rs ----
    consumer_pc,            \* "running" | "stopped" (after the shutdown flush)
    outputs,                \* for each window taken by the last iteration,
                            \* the window and the values computed from it
    paused,                 \* `let mut paused`
    config_paused,          \* Config::paused, as the config file holds it
    clock,                  \* the time in ms, as Utc::now() and Instant::now()
                            \* read it
    last_window_check,      \* `let mut last_window_check`
    last_config_check,      \* `let mut last_config_check`
    \* ---- history of the windows of the pipeline ----
    closed,                 \* for every window the manager has closed: the ids
                            \* of its events and the operation that closed it
    built,                  \* for every snapshot built: the ids of the events
                            \* of its window
    \* ---- the event constructors of collector/types.rs, build_json ----
    made                    \* Option: the arguments of a constructor call and,
                            \* once it has returned, the event it made; or the
                            \* arguments of a build_json call and its result
VARIABLES
    \* ---- ServerState (server.rs) and the requests it has served ----
    baselines,              \* the sessions the BehaviorProcessor has folded
                            \* into its baselines
    saved_baselines,        \* Option: the baselines of behavior_baselines.json
    served,                 \* the number of POST /ingest requests answered
    response                \* Option: the last request and the answer to it

wm_vars == <<window_duration, session_gap_threshold, current_window,
             completed_windows, last_event_time, wm_call, wm_ret, next_id,
             taken_ids>>

col_vars == <<backend, config, running, thread_handle, threads, channel,
              caller_pc, join_target, start_result, stopped>>

loop_vars == <<paused, config_paused, clock, last_window_check,
               last_config_check, closed, built>>

srv_vars == <<baselines, saved_baselines, served, response>>
out_vars == <<consumer_pc, outputs, made, loop_vars, srv_vars>>

vars == <<wm_vars, col_vars, out_vars>>

(***************************************************************************)
(* Bounds of the model.                                                    *)
(***************************************************************************)
MaxEvents == 3
MaxTime == 1
MaxDuration == 2
MaxGap == 1
MaxThreads == 2
ChannelCapacity == 2

Times == 0..MaxTime
NowTimes == 0..(MaxTime + MaxDuration)
EventKinds == {"Keyboard", "Mouse"}

(***************************************************************************)
(* EventWindow                                                             *)
(***************************************************************************)

\* EventWindow::new
EventWindowNew(start, duration) ==
    [start |-> start,
     end |-> start + duration,
     keyboard_events |-> <<>>,
     mouse_events |-> <<>>,
     is_session_start |-> FALSE]

\* EventWindow::contains
Contains(w, timestamp) == timestamp >= w.start /\ timestamp < w.end

\* Only keyboard events are stored
AddEvent_KeyboardOnly(w, event) ==
    IF event.kind = "Keyboard"
    THEN [w EXCEPT !.keyboard_events = Append(@, event)]
    ELSE w

\* EventWindow::add_event
AddEvent(w, event) ==
    IF event.kind = "Keyboard"
    THEN [w EXCEPT !.keyboard_events = Append(@, event)]
    ELSE [w EXCEPT !.mouse_events = Append(@, event)]

\* EventWindow::is_empty
IsEmpty(w) == Len(w.keyboard_events) = 0 /\ Len(w.mouse_events) = 0

\* EventWindow::event_count
EventCount(w) == Len(w.keyboard_events) + Len(w.mouse_events)

(***************************************************************************)
(* WindowManager                                                           *)
(***************************************************************************)

CompleteCurrentWindow_Clone(cur, completed) ==
    [current |-> cur,
     completed |-> IF cur # <<>> /\ ~IsEmpty(cur[1])
                   THEN Append(completed, cur[1])
                   ELSE completed]

CompleteCurrentWindow_KeepEmpty(cur, completed) ==
    [current |-> <<>>,
     completed |-> IF cur # <<>> THEN Append(completed, cur[1]) ELSE completed]

CompleteCurrentWindow_Default(cur, completed) ==
    [current |-> <<>>,
     completed |-> IF cur # <<>>
                   THEN (IF ~IsEmpty(cur[1]) THEN Append(completed, cur[1])
                         ELSE completed)
                   ELSE Append(completed, EventWindowNew(0, 0))]

\* WindowManager::complete_current_window: take() the open window and push it
\* to the completed set unless it is empty.
CompleteCurrentWindow(cur, completed) ==
    [current |-> <<>>,
     completed |-> IF cur # <<>> /\ ~IsEmpty(cur[1])
                   THEN Append(completed, cur[1])
                   ELSE completed]

IsNewSession_Inclusive(last, event_time, gap) ==
    IF last # <<>> THEN event_time - last[1] >= gap ELSE TRUE

\* process_event, lines 101-106: the session-boundary test
IsNewSession(last, event_time, gap) ==
    IF last # <<>> THEN event_time - last[1] > gap ELSE TRUE

\* A window opened at the epoch instead of at the time of the event
OpenWindow_AtEpoch(event_time, duration, is_new_session) ==
    [EventWindowNew(0, duration)
        EXCEPT !.is_session_start = is_new_session]

\* A window opened for an event always marked as the start of a session
OpenWindow_AlwaysSessionStart(event_time, duration, is_new_session) ==
    [EventWindowNew(event_time, duration) EXCEPT !.is_session_start = TRUE]

\* A window opened for an event (lines 115-117 and 127-129)
OpenWindow(event_time, duration, is_new_session) ==
    [EventWindowNew(event_time, duration)
        EXCEPT !.is_session_start = is_new_session]

\* WindowManager::process_event as a function of the manager's fields
ProcessEventResult(cur, completed, last, event, duration, gap) ==
    LET event_time == event.timestamp
        is_new_session == IsNewSession(last, event_time, gap)
        \* if is_new_session && current_window.is_some()
        s1 == IF is_new_session /\ cur # <<>>
              THEN CompleteCurrentWindow(cur, completed)
              ELSE [current |-> cur, completed |-> completed]
        \* if current_window.is_none()
        c2 == IF s1.current = <<>>
              THEN << OpenWindow(event_time, duration, is_new_session) >>
              ELSE s1.current
        \* if event_time >= window.end
        s3 == IF event_time >= c2[1].end
              THEN [current |-> << OpenWindow(event_time, duration, is_new_session) >>,
                    completed |-> CompleteCurrentWindow(c2, s1.completed).completed]
              ELSE [current |-> c2, completed |-> s1.completed]
    IN  [current |-> << AddEvent(s3.current[1], event) >>,
         completed |-> s3.completed,
         last |-> << event_time >>]

TakeCompletedWindows_Clone(completed) ==
    [ret |-> completed, completed |-> completed]

\* WindowManager::take_completed_windows: std::mem::take
TakeCompletedWindows(completed) ==
    [ret |-> completed, completed |-> <<>>]

Expired_Strict(w, now) == now > w.end

\* check_window_expiry, line 174
Expired(w, now) == now >= w.end

\* The ids of the events of a window, keyboard events first
RECURSIVE SeqIds(_)
SeqIds(s) == IF s = <<>> THEN <<>> ELSE <<s[1].id>> \o SeqIds(Tail(s))

WindowIds(w) == SeqIds(w.keyboard_events) \o SeqIds(w.mouse_events)

RECURSIVE WindowsIds(_)
WindowsIds(ws) ==
    IF ws = <<>> THEN <<>> ELSE WindowIds(ws[1]) \o WindowsIds(Tail(ws))

\* WindowManager::new
InitWM(duration, gap) ==
    /\ window_duration = duration
    /\ session_gap_threshold = gap
    /\ current_window = <<>>
    /\ completed_windows = <<>>
    /\ last_event_time = <<>>
    /\ wm_call = [op |-> "new", t |-> 0, open |-> FALSE, due |-> FALSE]
    /\ wm_ret = <<>>
    /\ next_id = 1
    /\ taken_ids = <<>>

\* WindowManager::process_event
process_event(event) ==
    LET r == ProcessEventResult(current_window, completed_windows,
                                last_event_time, event,
                                window_duration, session_gap_threshold)
    IN  /\ current_window' = r.current
        /\ completed_windows' = r.completed
        /\ last_event_time' = r.last
        /\ wm_call' = [op |-> "process_event", t |-> event.timestamp,
                       open |-> current_window # <<>>, due |-> FALSE]
        /\ wm_ret' = <<>>
        /\ next_id' = next_id + 1
        /\ UNCHANGED <<window_duration, session_gap_threshold, taken_ids>>
        /\ UNCHANGED col_vars
        /\ UNCHANGED out_vars

ProcessEvent ==
    /\ next_id <= MaxEvents
    /\ \E t \in Times, k \in EventKinds :
          process_event([id |-> next_id, timestamp |-> t, kind |-> k])

\* A flush that also forgets the time of the last event
flush_ForgetsLastEvent ==
    LET r == CompleteCurrentWindow(current_window, completed_windows)
    IN  /\ current_window' = r.current
        /\ completed_windows' = r.completed
        /\ last_event_time' = <<>>
        /\ wm_call' = [op |-> "flush", t |-> 0,
                       open |-> current_window # <<>>, due |-> FALSE]
        /\ wm_ret' = <<>>
        /\ UNCHANGED <<window_duration, session_gap_threshold,
                       next_id, taken_ids>>
        /\ UNCHANGED col_vars
        /\ UNCHANGED out_vars

\* WindowManager::flush
flush ==
    LET r == CompleteCurrentWindow(current_window, completed_windows)
    IN  /\ current_window' = r.current
        /\ completed_windows' = r.completed
        /\ wm_call' = [op |-> "flush", t |-> 0,
                       open |-> current_window # <<>>, due |-> FALSE]
        /\ wm_ret' = <<>>
        /\ UNCHANGED <<window_duration, session_gap_threshold,
                       last_event_time, next_id, taken_ids>>
        /\ UNCHANGED col_vars
        /\ UNCHANGED out_vars

\* WindowManager::take_completed_windows
take_completed_windows ==
    LET r == TakeCompletedWindows(completed_windows)
    IN  /\ completed_windows' = r.completed
        /\ wm_ret' = r.ret
        /\ taken_ids' = taken_ids \o WindowsIds(r.ret)
        /\ wm_call' = [op |-> "take_completed_windows", t |-> 0,
                       open |-> current_window # <<>>, due |-> FALSE]
        /\ UNCHANGED <<window_duration, session_gap_threshold,
                       current_window, last_event_time, next_id>>
        /\ UNCHANGED col_vars
        /\ UNCHANGED out_vars

\* WindowManager::check_window_expiry, with now the value of Utc::now()
check_window_expiry(now) ==
    LET r == IF current_window # <<>> /\ Expired(current_window[1], now)
             THEN CompleteCurrentWindow(current_window, completed_windows)
             ELSE [current |-> current_window, completed |-> completed_windows]
    IN  /\ current_window' = r.current
        /\ completed_windows' = r.completed
        /\ wm_call' = [op |-> "check_window_expiry", t |-> 0,
                       open |-> current_window # <<>>,
                       due |-> /\ current_window # <<>>
                               /\ now >= current_window[1].end]
        /\ wm_ret' = <<>>
        /\ UNCHANGED <<window_duration, session_gap_threshold,
                       last_event_time, next_id, taken_ids>>
        /\ UNCHANGED col_vars
        /\ UNCHANGED out_vars

CheckWindowExpiry == \E now \in NowTimes : check_window_expiry(now)

NextWM ==
    \/ ProcessEvent
    \/ flush
    \/ take_completed_windows
    \/ CheckWindowExpiry

(***************************************************************************)
(* Properties of the window manager                                        *)
(***************************************************************************)

\* The events of a window, keyboard events first
WindowEvents(w) == w.keyboard_events \o w.mouse_events

\* Every window the manager holds or has just handed out
HeldWindows == current_window \o completed_windows \o wm_ret

\* The ids of the events in the open window, the completed set and the
\* windows handed out so far
HeldIds ==
    WindowsIds(current_window) \o WindowsIds(completed_windows) \o taken_ids

Occurrences(s, x) == Cardinality({i \in DOMAIN s : s[i] = x})

\* Whether event id is among the events of window w
HasEvent(w, id) == \E i \in DOMAIN WindowIds(w) : WindowIds(w)[i] = id

\* Every event of every window the manager holds lies in [start, end)
EventsWithinWindow ==
    \A i \in DOMAIN HeldWindows :
        \A j \in DOMAIN WindowEvents(HeldWindows[i]) :
            Contains(HeldWindows[i], WindowEvents(HeldWindows[i])[j].timestamp)

\* C1: after any sequence of process_event, check_window_expiry, flush and
\* take_completed_windows calls, with any event timestamps, every event stored
\* in the open window or in a completed window has a timestamp t with
\* window.start <= t < window.end.  Stated for the positive window durations:
\* with a zero duration [start, end) is empty and the first event breaks it.
C1_EventsWithinWindow ==
    window_duration > 0 => EventsWithinWindow

\* C1 for every duration, zero included
C1_EventsWithinWindow_AnyDuration == EventsWithinWindow

\* C2: every event passed to process_event appears exactly once in the union
\* of the open window, the completed set and the windows already returned by
\* take_completed_windows.
C2_EachEventInExactlyOneWindow ==
    /\ \A id \in 1..(next_id - 1) : Occurrences(HeldIds, id) = 1
    /\ \A i \in DOMAIN HeldIds : HeldIds[i] \in 1..(next_id - 1)

C2_Witness ==
    /\ current_window # <<>>
    /\ completed_windows # <<>>
    /\ taken_ids # <<>>

\* C3: every window in the completed set or returned by
\* take_completed_windows contains at least one event.
C3_CompletedWindowsNonEmpty ==
    /\ \A i \in DOMAIN completed_windows : ~IsEmpty(completed_windows[i])
    /\ \A i \in DOMAIN wm_ret : ~IsEmpty(wm_ret[i])

\* with a zero duration process_event discards the empty window it opened
\* first, and a later event has closed the window that held the first one
C3_Witness ==
    /\ window_duration = 0
    /\ Len(completed_windows) >= 2

\* C4: when process_event receives an event later than the previous one by
\* strictly more than session_gap_threshold, the open window (if any) is moved
\* to the completed set at once and the window that receives the event has
\* is_session_start = TRUE; with a gap equal to the threshold the open window
\* is closed only if the event has reached its end, and a window opened for the
\* event has is_session_start = FALSE.
C4_SessionBoundary ==
    [][ (wm_call'.op = "process_event" /\ last_event_time # <<>>) =>
             LET t == wm_call'.t
                 gap == t - last_event_time[1]
             IN  /\ HasEvent(current_window'[1], next_id)
                 /\ gap > session_gap_threshold =>
                      /\ current_window # <<>> =>
                           completed_windows' =
                               Append(completed_windows, current_window[1])
                      /\ current_window'[1].is_session_start
                      /\ current_window'[1].start = t
                      /\ EventCount(current_window'[1]) = 1
                 /\ gap = session_gap_threshold =>
                      IF current_window # <<>> /\ t < current_window[1].end
                      THEN /\ completed_windows' = completed_windows
                           /\ current_window'[1].start = current_window[1].start
                           /\ EventCount(current_window'[1]) =
                                 EventCount(current_window[1]) + 1
                      ELSE ~current_window'[1].is_session_start
    ]_vars

\* a boundary has closed a window whose duration had not elapsed
C4_Witness ==
    /\ wm_call.op = "process_event"
    /\ wm_call.open
    /\ completed_windows # <<>>
    /\ current_window # <<>>
    /\ current_window[1].is_session_start
    /\ EventCount(current_window[1]) = 1
    /\ current_window[1].start > completed_windows[Len(completed_windows)].start
    /\ current_window[1].start < completed_windows[Len(completed_windows)].end

\* C26: when process_event receives an event with timestamp >= the open
\* window's end (and no session boundary), it closes that window and opens a
\* new one with start equal to the event's timestamp and end = start +
\* window_duration (not aligned to the previous window's end), and stores
\* the event in the new window.
C26_RolloverAnchoredAtEvent ==
    [][ ( /\ wm_call'.op = "process_event"
          /\ current_window # <<>>
          /\ wm_call'.t >= current_window[1].end
          /\ ~IsNewSession(last_event_time, wm_call'.t,
                           session_gap_threshold) ) =>
             /\ completed_windows' =
                    Append(completed_windows, current_window[1])
             /\ current_window' # <<>>
             /\ current_window'[1].start = wm_call'.t
             /\ current_window'[1].end = wm_call'.t + window_duration
             /\ WindowIds(current_window'[1]) = << next_id >>
    ]_vars

\* An event at or after the end of the open window of a positive duration,
\* and no session boundary, has closed it: the window now open starts at the
\* time of the event and holds that event only
C26_Witness ==
    /\ wm_call.op = "process_event"
    /\ wm_call.open
    /\ window_duration > 0
    /\ completed_windows # <<>>
    /\ current_window # <<>>
    /\ ~current_window[1].is_session_start
    /\ EventCount(current_window[1]) = 1
    /\ current_window[1].start = wm_call.t
    /\ current_window[1].end = wm_call.t + window_duration
    /\ current_window[1].start >= completed_windows[Len(completed_windows)].end
    /\ current_window[1].start > completed_windows[Len(completed_windows)].start

\* C5: an expiry check at a time now >= window.end moves the open window to
\* the completed set and leaves no window open, without any new event; at a
\* time now < window.end (or with no window open) it changes nothing; and
\* the next take_completed_windows returns the completed set.
C5_ExpiryClosesWindow ==
    [][ /\ wm_call'.op = "check_window_expiry" =>
            IF wm_call'.due
            THEN /\ current_window' = <<>>
                 /\ completed_windows' =
                        Append(completed_windows, current_window[1])
                 /\ UNCHANGED <<last_event_time, next_id, taken_ids>>
            ELSE UNCHANGED <<current_window, completed_windows,
                             last_event_time, next_id, taken_ids>>
        /\ wm_call'.op = "take_completed_windows" =>
            wm_ret' = completed_windows
    ]_vars

\* an expiry check has just closed the window that was open
C5_Witness ==
    /\ wm_call.op = "check_window_expiry"
    /\ wm_call.open
    /\ wm_call.due
    /\ current_window = <<>>
    /\ completed_windows # <<>>
    /\ window_duration > 0

\* C6: flush() with no open window leaves the manager unchanged and adds no
\* completed window; a flush() right after a flush() changes nothing.
C6_FlushIdempotent ==
    [][ /\ (wm_call'.op = "flush" /\ current_window = <<>>) =>
            UNCHANGED <<current_window, completed_windows, last_event_time,
                        next_id, taken_ids>>
        /\ (wm_call.op = "flush" /\ wm_call'.op = "flush") =>
            UNCHANGED <<current_window, completed_windows, last_event_time,
                        next_id, taken_ids>>
    ]_vars

\* a flush() made with no window open
C6_Witness ==
    /\ wm_call.op = "flush"
    /\ ~wm_call.open
    /\ completed_windows # <<>>
    /\ next_id = 2

\* C7: take_completed_windows returns the completed set as it stands and
\* leaves it empty; every other call leaves the completed set alone or appends
\* the window it closes at the tail, so the set is in close order; a take
\* right after a take returns nothing, and no event is handed out twice.
C7_TakeDrainsInCloseOrder ==
    [][ /\ wm_call'.op = "take_completed_windows" =>
            /\ wm_ret' = completed_windows
            /\ completed_windows' = <<>>
            /\ UNCHANGED <<current_window, last_event_time>>
        /\ wm_call'.op # "take_completed_windows" =>
            \/ completed_windows' = completed_windows
            \/ /\ current_window # <<>>
               /\ completed_windows' =
                      Append(completed_windows, current_window[1])
        /\ (wm_call.op = "take_completed_windows"
                /\ wm_call'.op = "take_completed_windows") =>
            wm_ret' = <<>>
        /\ \A id \in 1..MaxEvents : Occurrences(taken_ids', id) <= 1
    ]_vars

C7_Witness ==
    /\ wm_call.op = "take_completed_windows"
    /\ Len(wm_ret) >= 2
    /\ completed_windows = <<>>
    /\ taken_ids = WindowsIds(wm_ret)

\* The event of a non-empty window that was stored first (events are
\* numbered in the order in which process_event receives them)
FirstStored(w) ==
    CHOOSE e \in {WindowEvents(w)[j] : j \in DOMAIN WindowEvents(w)} :
        \A j \in DOMAIN WindowEvents(w) : e.id <= WindowEvents(w)[j].id

\* The open window, when there is one, holds an event and starts at the
\* timestamp of the event it stored first
OpenWindowAnchored ==
    current_window # <<>> =>
        /\ ~IsEmpty(current_window[1])
        /\ FirstStored(current_window[1]).timestamp = current_window[1].start

\* C33: between window-manager operations the open window, when present, is
\* never empty and its first stored event has a timestamp equal to the
\* window's start; hence every flush, and every expiry check made at or
\* after the window's end, that finds a window open adds exactly one window
\* to the completed set (that window) and leaves none open.
C33_OpenWindowNeverEmpty ==
    [][ /\ OpenWindowAnchored'
        /\ ( /\ current_window # <<>>
             /\ \/ wm_call'.op = "flush"
                \/ wm_call'.op = "check_window_expiry" /\ wm_call'.due ) =>
              /\ Len(completed_windows') = Len(completed_windows) + 1
              /\ completed_windows'[Len(completed_windows')] = current_window[1]
              /\ current_window' = <<>>
    ]_vars

\* a flush has closed an open window that held two events, the second of
\* them earlier than the first
C33_Witness ==
    /\ wm_call.op = "flush"
    /\ wm_call.open
    /\ current_window = <<>>
    /\ completed_windows # <<>>
    /\ LET w == completed_windows[Len(completed_windows)]
       IN  /\ EventCount(w) = 2
           /\ FirstStored(w).timestamp = w.start
           /\ \E j \in DOMAIN WindowEvents(w) :
                 WindowEvents(w)[j].timestamp < w.start

\* C34: a window has is_session_start = TRUE only if the event it was opened
\* for was the first one ever processed or arrived more than
\* session_gap_threshold after the previous event; a window opened by
\* rollover, or after an expiry or flush, for an event within the threshold
\* has is_session_start = FALSE.  The flag is set when the window is opened
\* and not changed afterwards.
C34_SessionStartOnlyAtBoundary ==
    [][ wm_call'.op = "process_event" =>
          IF WindowIds(current_window'[1]) = << next_id >>
          THEN current_window'[1].is_session_start <=>
                  \/ last_event_time = <<>>
                  \/ wm_call'.t - last_event_time[1] > session_gap_threshold
          ELSE /\ current_window # <<>>
               /\ current_window'[1].is_session_start
                      = current_window[1].is_session_start
    ]_vars

\* a window opened with none open (after a flush or an expiry) for an event
\* that was not the first and came within the threshold
C34_Witness ==
    /\ wm_call.op = "process_event"
    /\ ~wm_call.open
    /\ next_id > 2
    /\ current_window # <<>>
    /\ EventCount(current_window[1]) = 1
    /\ ~current_window[1].is_session_start
    /\ window_duration > 0

\* C35: flush, check_window_expiry and take_completed_windows leave
\* last_event_time unchanged; process_event always sets it to the timestamp
\* of the event, even when that is earlier than the previous value; so the
\* session-boundary test of an event that follows a flush or an expiry
\* which left no window open measures the gap from the last event processed
\* (last_event_time is set as soon as one event has been processed and
\* never cleared).
C35_LastEventTimeFrame ==
    [][ /\ wm_call'.op \in {"flush", "check_window_expiry",
                            "take_completed_windows"} =>
              last_event_time' = last_event_time
        /\ wm_call'.op = "process_event" =>
              last_event_time' = << wm_call'.t >>
        /\ (last_event_time' = <<>>) <=> (next_id' = 1)
        /\ ( /\ wm_call.op \in {"flush", "check_window_expiry"}
             /\ current_window = <<>>
             /\ wm_call'.op = "process_event"
             /\ last_event_time # <<>> ) =>
              (current_window'[1].is_session_start <=>
                  wm_call'.t - last_event_time[1] > session_gap_threshold)
    ]_vars

\* process_event has received, with no window open after a flush or an
\* expiry, an event earlier than the one before it
C35_Witness ==
    /\ wm_call.op = "process_event"
    /\ ~wm_call.open
    /\ next_id > 2
    /\ \E i \in DOMAIN completed_windows :
          \E j \in DOMAIN WindowEvents(completed_windows[i]) :
              /\ WindowEvents(completed_windows[i])[j].id = next_id - 2
              /\ WindowEvents(completed_windows[i])[j].timestamp
                     > last_event_time[1]

(***************************************************************************)
(* Collector: the caller, the capture threads and the channel              *)
(***************************************************************************)
Backends == {"macos", "windows", "noop"}
Configs == [capture_keyboard : BOOLEAN, capture_mouse : BOOLEAN]

\* Every source attached, whatever the configuration
EnabledSources_All(c) == {"Keyboard", "Mouse"}

\* build_event_types (macos.rs) / the hooks installed by run_hook_loop
\* (windows.rs): the sources the native observer is attached to
EnabledSources(c) ==
    (IF c.capture_keyboard THEN {"Keyboard"} ELSE {})
        \cup (IF c.capture_mouse THEN {"Mouse"} ELSE {})

\* The closure handed to thread::spawn starts in run_event_loop /
\* run_hook_loop.  event_sender is the thread-local EVENT_SENDER written by
\* the loop function's setup; hooks are the native observers attached.
NewThread ==
    [pc |-> "install", event_sender |-> FALSE, hooks |-> {}, error |-> "none"]

\* The error the native installation reports when the OS refuses
InstallErrors ==
    IF backend = "macos" THEN {"TapCreationFailed", "RunLoopSourceFailed"}
    ELSE {"HookInstallationFailed"}

\* Whether the installation calls the OS at all: CGEventTap::new is always
\* called; SetWindowsHookExW only for an enabled source
InstallCanFail ==
    backend = "macos" \/ EnabledSources(config) # {}

\* The sender the native callback finds.  windows.rs has one module-level
\* thread-local EVENT_SENDER, written by run_hook_loop and read by the hook
\* procedures.  macos.rs declares a thread-local EVENT_SENDER in
\* run_event_loop (lines 176-182, written) and a second one inside
\* event_callback (lines 190-192), which is the one the callback reads and
\* which nothing writes.
CallbackSender(th) ==
    IF backend = "macos" THEN FALSE ELSE th.event_sender

TrySend_DropOldest(ch, event) ==
    IF Len(ch) < ChannelCapacity THEN Append(ch, event)
    ELSE Append(Tail(ch), event)

\* Sender::try_send on the bounded channel
TrySend(ch, event) ==
    IF Len(ch) < ChannelCapacity THEN Append(ch, event) ELSE ch

StartOutcome_NoCheck(is_running) == "Ok"

\* start(), the guard at its head: running.load()
StartOutcome(is_running) ==
    IF is_running THEN "AlreadyRunning" ELSE "Ok"

SpawnsThread_Always(b) == TRUE

\* Whether start() spawns a capture thread: the macOS and Windows backends do
\* (thread::spawn), the no-op backend only sets the running flag
SpawnsThread(b) == b # "noop"

JoinReturns_NoWait(th) == TRUE

\* handle.join() returns once the closure of the thread has returned
JoinReturns(th) == th.pc = "done"

\* check_permission(): the values it can return.  macos.rs and windows.rs
\* ask the OS for a trial tap / hook; noop.rs returns true.
CheckPermissionOutcomes(b) ==
    IF b = "noop" THEN {TRUE} ELSE BOOLEAN

\* MacOSCollector::new / WindowsCollector::new / NoopCollector::new
InitCollector(b, c) ==
    /\ backend = b
    /\ config = c
    /\ running = FALSE
    /\ thread_handle = <<>>
    /\ threads = <<>>
    /\ channel = <<>>
    /\ caller_pc = "idle"
    /\ join_target = <<>>
    /\ start_result = "none"
    /\ stopped = FALSE

\* ---- the caller ----

CallStart ==
    /\ caller_pc = "idle"
    /\ Len(threads) < MaxThreads
    /\ caller_pc' = "start"
    /\ stopped' = FALSE
    /\ UNCHANGED <<backend, config, running, thread_handle, threads, channel,
                   join_target, start_result>>
    /\ UNCHANGED wm_vars
    /\ UNCHANGED out_vars

\* start(): macos.rs:62-82, windows.rs:65-85, noop.rs:68-74
StartBody ==
    /\ caller_pc = "start"
    /\ caller_pc' = "idle"
    /\ start_result' = StartOutcome(running)
    /\ IF start_result' = "AlreadyRunning"
       THEN UNCHANGED <<running, thread_handle, threads>>
       ELSE /\ running' = TRUE
            /\ IF SpawnsThread(backend)
               THEN /\ threads' = Append(threads, NewThread)
                    /\ thread_handle' = << Len(threads) + 1 >>
               ELSE UNCHANGED <<thread_handle, threads>>
    /\ UNCHANGED <<backend, config, channel, join_target>>
    /\ UNCHANGED stopped
    /\ UNCHANGED wm_vars
    /\ UNCHANGED out_vars

CallStop ==
    /\ caller_pc = "idle"
    /\ caller_pc' = "stop"
    /\ UNCHANGED <<backend, config, running, thread_handle, threads, channel,
                   join_target, start_result>>
    /\ UNCHANGED stopped
    /\ UNCHANGED wm_vars
    /\ UNCHANGED out_vars

\* stop(), up to the join: macos.rs:85-88, windows.rs:88-91, noop.rs:77-79
StopStore ==
    /\ caller_pc = "stop"
    /\ running' = FALSE
    /\ IF thread_handle = <<>>
       THEN /\ caller_pc' = "idle"
            /\ UNCHANGED <<thread_handle, join_target>>
       ELSE /\ caller_pc' = "stop_join"
            /\ join_target' = thread_handle
            /\ thread_handle' = <<>>
    /\ stopped' = (caller_pc' = "idle")
    /\ UNCHANGED <<backend, config, threads, channel, start_result>>
    /\ UNCHANGED wm_vars
    /\ UNCHANGED out_vars

\* stop(), the join: macos.rs:88-91, windows.rs:91-94
StopJoin ==
    /\ caller_pc = "stop_join"
    /\ JoinReturns(threads[join_target[1]])
    /\ caller_pc' = "idle"
    /\ join_target' = <<>>
    /\ stopped' = TRUE
    /\ UNCHANGED <<backend, config, running, thread_handle, threads, channel,
                   start_result>>
    /\ UNCHANGED wm_vars
    /\ UNCHANGED out_vars

\* try_recv() returning an event
TryRecv ==
    /\ caller_pc = "idle"
    /\ channel # <<>>
    /\ channel' = Tail(channel)
    /\ UNCHANGED <<backend, config, running, thread_handle, threads,
                   caller_pc, join_target, start_result>>
    /\ UNCHANGED stopped
    /\ UNCHANGED wm_vars
    /\ UNCHANGED out_vars

\* ---- a capture thread ----

\* run_event_loop lines 172-231 / run_hook_loop lines 267-301, the OS
\* attaching the observer
ThreadInstallOk(tid) ==
    /\ threads[tid].pc = "install"
    /\ threads' = [threads EXCEPT ![tid] =
                     [@ EXCEPT !.pc = "loop_check",
                               !.event_sender = TRUE,
                               !.hooks = EnabledSources(config)]]
    /\ UNCHANGED <<backend, config, running, thread_handle, channel,
                   caller_pc, join_target, start_result>>
    /\ UNCHANGED stopped
    /\ UNCHANGED wm_vars
    /\ UNCHANGED out_vars

\* ... and the OS refusing: the loop function returns Err, the closure
\* prints it and goes on to its last statement
ThreadInstallRefused(tid) ==
    /\ threads[tid].pc = "install"
    /\ InstallCanFail
    /\ \E e \in InstallErrors :
          threads' = [threads EXCEPT ![tid] =
                        [@ EXCEPT !.pc = "exit_store",
                                  !.event_sender = TRUE,
                                  !.hooks = {},
                                  !.error = e]]
    /\ UNCHANGED <<backend, config, running, thread_handle, channel,
                   caller_pc, join_target, start_result>>
    /\ UNCHANGED stopped
    /\ UNCHANGED wm_vars
    /\ UNCHANGED out_vars

\* while running.load(Ordering::SeqCst): macos.rs:234, windows.rs:305
ThreadLoopCheck(tid) ==
    /\ threads[tid].pc = "loop_check"
    /\ threads' = [threads EXCEPT ![tid] =
                     IF running
                     THEN [@ EXCEPT !.pc = "in_native"]
                     ELSE [@ EXCEPT !.pc = "exit_store", !.hooks = {}]]
    /\ UNCHANGED <<backend, config, running, thread_handle, channel,
                   caller_pc, join_target, start_result>>
    /\ UNCHANGED stopped
    /\ UNCHANGED wm_vars
    /\ UNCHANGED out_vars

\* macos.rs:236-240: CFRunLoop::run_in_mode returns after at most 100 ms
ThreadRunLoopTimeout(tid) ==
    /\ backend = "macos"
    /\ threads[tid].pc = "in_native"
    /\ threads' = [threads EXCEPT ![tid] = [@ EXCEPT !.pc = "loop_check"]]
    /\ UNCHANGED <<backend, config, running, thread_handle, channel,
                   caller_pc, join_target, start_result>>
    /\ UNCHANGED stopped
    /\ UNCHANGED wm_vars
    /\ UNCHANGED out_vars

\* windows.rs:307-318: GetMessageW returns only when a message is posted to
\* the thread: result > 0 goes round the loop, 0 (WM_QUIT) and -1 break
MessageArrives(tid) ==
    /\ backend = "windows"
    /\ threads[tid].pc = "in_native"
    /\ \E result \in {-1, 0, 1} :
          threads' = [threads EXCEPT ![tid] =
                        IF result > 0
                        THEN [@ EXCEPT !.pc = "loop_check"]
                        ELSE [@ EXCEPT !.pc = "exit_store", !.hooks = {}]]
    /\ UNCHANGED <<backend, config, running, thread_handle, channel,
                   caller_pc, join_target, start_result>>
    /\ UNCHANGED stopped
    /\ UNCHANGED wm_vars
    /\ UNCHANGED out_vars

\* The closure's last statement: running.store(false)
ThreadExitStore(tid) ==
    /\ threads[tid].pc = "exit_store"
    /\ running' = FALSE
    /\ threads' = [threads EXCEPT ![tid] = [@ EXCEPT !.pc = "done"]]
    /\ UNCHANGED <<backend, config, thread_handle, channel,
                   caller_pc, join_target, start_result>>
    /\ UNCHANGED stopped
    /\ UNCHANGED wm_vars
    /\ UNCHANGED out_vars

\* The native callback (event_callback, keyboard_hook_proc, mouse_hook_proc),
\* run by the OS on the capture thread while it is inside its native loop
NativeInput(tid) ==
    /\ threads[tid].pc = "in_native"
    /\ \E k \in threads[tid].hooks :
          channel' = IF CallbackSender(threads[tid])
                     THEN TrySend(channel, k)
                     ELSE channel
    /\ UNCHANGED <<backend, config, running, thread_handle, threads,
                   caller_pc, join_target, start_result>>
    /\ UNCHANGED stopped
    /\ UNCHANGED wm_vars
    /\ UNCHANGED out_vars

\* What a capture thread does by itself
ThreadStep(tid) ==
    \/ ThreadInstallOk(tid)
    \/ ThreadInstallRefused(tid)
    \/ ThreadLoopCheck(tid)
    \/ ThreadRunLoopTimeout(tid)
    \/ ThreadExitStore(tid)

NextCollector ==
    \/ CallStart
    \/ StartBody
    \/ CallStop
    \/ StopStore
    \/ StopJoin
    \/ TryRecv
    \/ \E tid \in DOMAIN threads : ThreadInstallOk(tid)
    \/ \E tid \in DOMAIN threads : ThreadInstallRefused(tid)
    \/ \E tid \in DOMAIN threads : ThreadLoopCheck(tid)
    \/ \E tid \in DOMAIN threads : ThreadRunLoopTimeout(tid)
    \/ \E tid \in DOMAIN threads : ThreadExitStore(tid)
    \/ \E tid \in DOMAIN threads : MessageArrives(tid)
    \/ \E tid \in DOMAIN threads : NativeInput(tid)

(***************************************************************************)
(* Properties of the collector                                             *)
(***************************************************************************)

\* C8: start() on a collector whose running flag is set returns
\* AlreadyRunning and changes nothing: the flag stays set, no thread is
\* spawned, the handle and the channel are untouched (every backend).
C8_StartWhileRunning ==
    [][ (caller_pc = "start" /\ caller_pc' = "idle" /\ running) =>
            /\ start_result' = "AlreadyRunning"
            /\ UNCHANGED <<running, thread_handle, threads, channel>>
    ]_vars

\* start() has been refused while a capture thread sits in its native loop
C8_Witness ==
    /\ start_result = "AlreadyRunning"
    /\ caller_pc = "idle"
    /\ running
    /\ thread_handle # <<>>
    /\ threads[thread_handle[1]].pc = "in_native"

\* C9: when the OS refuses to attach the observer, start() does not return
\* Ok: no state has the last start() answered Ok while the thread it spawned
\* has had its tap or hook refused.
C9_StartFailsWhenObserverRefused ==
    ~ (/\ start_result = "Ok"
       /\ thread_handle # <<>>
       /\ threads[thread_handle[1]].error # "none")

\* C10: once stop() is called on a running collector it returns, whether or
\* not any input event or message arrives afterwards (every backend).
C10_StopReturns ==
    (caller_pc = "stop" /\ running) ~> (caller_pc = "idle")

\* C10 without the Windows backend, whose GetMessageW has no timeout
C10_StopReturns_TapAndNoop ==
    (backend # "windows" /\ caller_pc = "stop" /\ running)
        ~> (caller_pc = "idle")

\* C27: while a backend is running, the sender bound during the capture
\* thread's setup is the one the native callback uses, so that every native
\* input event that maps to a reduced event is handed to the channel (macOS
\* tap and Windows hook alike): a thread inside its native loop has bound a
\* sender and its callback finds it.
C27_CallbackUsesBoundSender ==
    \A tid \in DOMAIN threads :
        threads[tid].pc = "in_native" =>
            /\ threads[tid].event_sender
            /\ CallbackSender(threads[tid])

\* C11: once stop() has returned and until start() is called again, no step
\* of any capture thread enqueues an event: the channel never grows.
C11_NoPublishAfterStop ==
    [][ stopped => Len(channel') <= Len(channel) ]_vars

\* stop() has returned on a backend whose thread had published events
C11_Witness ==
    /\ stopped
    /\ caller_pc = "idle"
    /\ channel # <<>>
    /\ \E tid \in DOMAIN threads : threads[tid].pc = "done"

\* C12: a publish attempt of the capture callback leaves the thread where it
\* was (it neither blocks nor fails the callback); with room in the channel
\* the event is appended at the tail, with a full channel the queued events
\* are unchanged; and the channel never holds more than its capacity,
\* whatever the consumer does.
C12_PublishDropsNewest ==
    [][ /\ \A tid \in DOMAIN threads :
            (NativeInput(tid) /\ CallbackSender(threads[tid])) =>
                /\ threads' = threads
                /\ IF Len(channel) < ChannelCapacity
                   THEN \E k \in threads[tid].hooks :
                            channel' = Append(channel, k)
                   ELSE channel' = channel
        /\ Len(channel) = ChannelCapacity =>
                channel' = channel \/ channel' = Tail(channel)
        /\ Len(channel') <= ChannelCapacity
    ]_vars

\* the channel is full while a thread with a bound sender is in its native
\* loop, so the next publish attempt is the one that is dropped
C12_Witness ==
    /\ Len(channel) = ChannelCapacity
    /\ \E tid \in DOMAIN threads :
          /\ threads[tid].pc = "in_native"
          /\ threads[tid].hooks # {}
          /\ CallbackSender(threads[tid])

\* C13: the no-op backend never emits an event: whatever start and stop
\* calls were made its channel is empty (so try_recv returns nothing) and it
\* has no capture thread; its check_permission can only return true.
C13_NoopNeverEmits ==
    backend = "noop" =>
        /\ channel = <<>>
        /\ threads = <<>>
        /\ CheckPermissionOutcomes(backend) = {TRUE}

\* the no-op backend has been started and stopped
C13_Witness ==
    /\ backend = "noop"
    /\ start_result = "Ok"
    /\ stopped
    /\ ~running

\* C32: a capture source the configuration switches off never produces an
\* event: with capture_keyboard false no keyboard event is published (nor is
\* a keyboard observer attached), with capture_mouse false no mouse event;
\* and collection is never started with neither source enabled.
C32_DisabledSourceSilent ==
    /\ \A i \in DOMAIN channel :
          /\ channel[i] = "Keyboard" => config.capture_keyboard
          /\ channel[i] = "Mouse" => config.capture_mouse
    /\ \A tid \in DOMAIN threads :
          /\ "Keyboard" \in threads[tid].hooks => config.capture_keyboard
          /\ "Mouse" \in threads[tid].hooks => config.capture_mouse
    /\ (running \/ threads # <<>> \/ start_result # "none") =>
          (config.capture_keyboard \/ config.capture_mouse)

\* a collector with exactly one source enabled has published an event
C32_Witness ==
    /\ config.capture_keyboard # config.capture_mouse
    /\ channel # <<>>
    /\ \E tid \in DOMAIN threads :
          threads[tid].pc = "in_native" /\ CallbackSender(threads[tid])

\* The capture threads that are inside their native loop (between the
\* installation of the observer and its removal) with a sender registered
InLoopWithSender ==
    {tid \in DOMAIN threads :
        /\ threads[tid].pc \in {"loop_check", "in_native"}
        /\ threads[tid].event_sender}

\* C36: at any time at most one capture thread of a collector is inside its
\* native loop with a registered sender, under every interleaving of
\* start(), stop() and the exit of a thread by itself (after a failed
\* installation included): every other thread the collector has spawned
\* has finished.
C36_AtMostOneCaptureThread ==
    /\ Cardinality(InLoopWithSender) <= 1
    /\ \A tid \in InLoopWithSender :
          \A other \in DOMAIN threads \ {tid} : threads[other].pc = "done"

\* a second thread is inside its native loop after the first one left by
\* itself because the installation of its observer was refused
C36_Witness ==
    /\ Len(threads) = 2
    /\ threads[1].pc = "done"
    /\ threads[1].error # "none"
    /\ threads[2].pc = "in_native"
    /\ threads[2].event_sender

\* The capture threads spawned by a start() that followed a stop() which
\* had returned: the thread spawned before them left its loop without an
\* error, which it does only after stop() has cleared the running flag, and
\* stop() has then joined it before the caller could call start() again
RestartedThreads ==
    {tid \in DOMAIN threads :
        /\ tid > 1
        /\ threads[tid - 1].pc = "done"
        /\ threads[tid - 1].error = "none"}

\* What a restart guarantees, step by step: once stop() has returned the
\* running flag is down and stays down until the body of the next start()
\* runs, which then succeeds and raises it; and a restarted thread inside
\* its native loop is attached to the enabled sources and publishes into
\* the collector's channel
RestartStep ==
    /\ stopped' => ~running'
    /\ (caller_pc = "start" /\ ~running /\ caller_pc' = "start") => ~running'
    /\ (caller_pc = "start" /\ ~running /\ caller_pc' = "idle") =>
          /\ start_result' = "Ok"
          /\ running'
          /\ SpawnsThread(backend) => thread_handle' = << Len(threads') >>
    /\ \A tid \in RestartedThreads' :
          threads'[tid].pc = "in_native" =>
              /\ threads'[tid].hooks = EnabledSources(config)
              /\ CallbackSender(threads'[tid])

\* C37: a collector can be restarted: after stop() has returned,
\* is_running() is false, a following start() succeeds (it does not return
\* AlreadyRunning) and capture resumes publishing into the same channel.
C37_RestartResumes ==
    [][ RestartStep ]_vars

\* ... on the backends whose callback finds the sender
C37_RestartResumes_HooksAndNoop ==
    [][ backend # "macos" => RestartStep ]_vars

\* a restarted thread is inside its native loop and has published
C37_Witness ==
    /\ backend = "windows"
    /\ start_result = "Ok"
    /\ running
    /\ 2 \in RestartedThreads
    /\ threads[2].pc = "in_native"
    /\ channel # <<>>

(***************************************************************************)
(* Feature computation (core/features.rs)                                  *)
(*                                                                         *)
(* In the specifications of this part times are in milliseconds.  An f64   *)
(* that is a rate, a ratio or a score is held in thousandths (1000 is      *)
(* 1.0); an f64 that is a number of milliseconds or a magnitude is held in *)
(* whole units.  Quotients and square roots are rounded down.              *)
(***************************************************************************)
Scale == 1000

RECURSIVE SumSeq(_)
SumSeq(s) == IF s = <<>> THEN 0 ELSE s[1] + SumSeq(Tail(s))

Min(a, b) == IF a <= b THEN a ELSE b

\* f64::clamp(0.0, 1.0)
Clamp01(x) == IF x < 0 THEN 0 ELSE IF x > Scale THEN Scale ELSE x

\* The largest r in lo..hi with r * r <= x
RECURSIVE SqrtBetween(_, _, _)
SqrtBetween(x, lo, hi) ==
    IF lo >= hi THEN lo
    ELSE LET mid == (lo + hi + 1) \div 2
         IN  IF mid * mid <= x THEN SqrtBetween(x, mid, hi)
             ELSE SqrtBetween(x, lo, mid - 1)

Sqrt(x) == SqrtBetween(x, 0, 46340)

\* std_dev: the population standard deviation, 0 for fewer than two values
StdDev(values) ==
    IF Len(values) < 2 THEN 0
    ELSE LET n == Len(values)
             sq == [i \in 1..n |-> values[i] * values[i]]
         IN  Sqrt(n * SumSeq(sq) - SumSeq(values) * SumSeq(values)) \div n

\* slice::windows(2) mapped to the difference of the timestamps
Intervals(events) ==
    IF Len(events) < 2 THEN <<>>
    ELSE [i \in 1..(Len(events) - 1) |->
            events[i + 1].timestamp - events[i].timestamp]

\* EventWindow::duration_secs, in milliseconds
DurationMs(w) == w.end - w.start

PAUSE_THRESHOLD_MS == 500
MICRO_ADJUSTMENT_THRESHOLD == 5
ACCELERATION_SPIKE_THRESHOLD == 50
IDLE_THRESHOLD_MS == 1000

\* KeyboardFeatures::default()
KeyboardFeaturesDefault ==
    [typing_rate |-> 0, pause_count |-> 0, mean_pause_ms |-> 0,
     latency_variability |-> 0, hold_time_mean |-> 0, burst_index |-> 0,
     session_continuity |-> 0, typing_tap_count |-> 0,
     typing_cadence_stability |-> 0, typing_gap_ratio |-> 0,
     typing_interaction_intensity |-> 0, keyboard_scroll_rate |-> 0,
     navigation_key_count |-> 0]

\* compute_hold_times: the loop, with last_down the pending key-down
RECURSIVE HoldTimesFrom(_, _)
HoldTimesFrom(events, last_down) ==
    IF events = <<>> THEN <<>>
    ELSE LET event == events[1]
         IN  IF event.is_key_down
             THEN HoldTimesFrom(Tail(events), <<event>>)
             ELSE IF last_down # <<>>
             THEN LET hold_ms == event.timestamp - last_down[1].timestamp
                  IN  (IF hold_ms >= 20 /\ hold_ms <= 2000
                       THEN <<hold_ms>> ELSE <<>>)
                          \o HoldTimesFrom(Tail(events), <<>>)
             ELSE HoldTimesFrom(Tail(events), last_down)

ComputeHoldTimes(events) == HoldTimesFrom(events, <<>>)

TypingEvents(events) ==
    SelectSeq(events, LAMBDA e : e.event_type = "TypingTap")

NavigationEvents(events) ==
    SelectSeq(events, LAMBDA e : e.event_type = "NavigationKey")

KeyPresses_WithReleases(events) == events

\* .filter(|e| e.is_key_down)
KeyPresses(events) == SelectSeq(events, LAMBDA e : e.is_key_down)

\* compute_keyboard_features
ComputeKeyboardFeatures(events, window_duration_ms) ==
    IF events = <<>> \/ window_duration_ms <= 0 THEN KeyboardFeaturesDefault
    ELSE
    LET typing_events == TypingEvents(events)
        navigation_events == NavigationEvents(events)
        navigation_key_count == Len(KeyPresses(navigation_events))
        keyboard_scroll_rate ==
            (navigation_key_count * Scale * 1000) \div window_duration_ms
        typing_key_presses == KeyPresses(typing_events)
        typing_tap_count == Len(typing_key_presses)
        typing_rate == (typing_tap_count * Scale * 1000) \div window_duration_ms
        intervals == Intervals(typing_key_presses)
        pauses == SelectSeq(intervals, LAMBDA i : i > PAUSE_THRESHOLD_MS)
        pause_count == Len(pauses)
        mean_pause_ms ==
            IF pauses = <<>> THEN 0 ELSE SumSeq(pauses) \div Len(pauses)
        latency_variability == StdDev(intervals)
        hold_times == ComputeHoldTimes(typing_events)
        hold_time_mean ==
            IF hold_times = <<>> THEN 0
            ELSE SumSeq(hold_times) \div Len(hold_times)
        short_interval_count == Len(SelectSeq(intervals, LAMBDA i : i < 100))
        burst_index ==
            IF intervals = <<>> THEN 0
            ELSE (short_interval_count * Scale) \div Len(intervals)
        active_intervals ==
            SelectSeq(intervals, LAMBDA i : i <= PAUSE_THRESHOLD_MS * 2)
        active_time_ms == SumSeq(active_intervals)
        session_continuity == (active_time_ms * Scale) \div window_duration_ms
        typing_cadence_stability ==
            (100 * Scale) \div (100 + latency_variability)
        typing_gap_ratio ==
            IF intervals = <<>> THEN 0
            ELSE (pause_count * Scale) \div Len(intervals)
        normalized_speed == Min(typing_rate \div 10, Scale)
        typing_interaction_intensity ==
            Clamp01((normalized_speed * 4 + typing_cadence_stability * 3
                        + (Scale - typing_gap_ratio) * 3) \div 10)
    IN  [typing_rate |-> typing_rate,
         pause_count |-> pause_count,
         mean_pause_ms |-> mean_pause_ms,
         latency_variability |-> latency_variability,
         hold_time_mean |-> hold_time_mean,
         burst_index |-> burst_index,
         session_continuity |-> Min(session_continuity, Scale),
         typing_tap_count |-> typing_tap_count,
         typing_cadence_stability |-> typing_cadence_stability,
         typing_gap_ratio |-> typing_gap_ratio,
         typing_interaction_intensity |-> typing_interaction_intensity,
         keyboard_scroll_rate |-> keyboard_scroll_rate,
         navigation_key_count |-> navigation_key_count]

\* MouseFeatures::default()
MouseFeaturesDefault ==
    [mouse_activity_rate |-> 0, mean_velocity |-> 0,
     velocity_variability |-> 0, acceleration_spikes |-> 0, click_rate |-> 0,
     scroll_rate |-> 0, idle_ratio |-> 0, micro_adjustment_ratio |-> 0]

\* estimate_idle_ratio
EstimateIdleRatio(move_events, window_duration_ms) ==
    IF Len(move_events) < 2 THEN Scale
    ELSE LET gaps == Intervals(move_events)
             excess == [i \in DOMAIN gaps |->
                          IF gaps[i] > IDLE_THRESHOLD_MS
                          THEN gaps[i] - IDLE_THRESHOLD_MS ELSE 0]
             idle_time_ms == SumSeq(excess)
         IN  Min((idle_time_ms * Scale) \div window_duration_ms, Scale)

Abs(x) == IF x < 0 THEN 0 - x ELSE x

\* compute_mouse_features
ComputeMouseFeatures(events, window_duration_ms) ==
    IF events = <<>> \/ window_duration_ms <= 0 THEN MouseFeaturesDefault
    ELSE
    LET move_events == SelectSeq(events, LAMBDA e : e.event_type = "Move")
        click_events ==
            SelectSeq(events, LAMBDA e : e.event_type = "LeftClick"
                                            \/ e.event_type = "RightClick")
        scroll_events == SelectSeq(events, LAMBDA e : e.event_type = "Scroll")
        with_magnitude ==
            SelectSeq(move_events, LAMBDA e : e.delta_magnitude # <<>>)
        velocities ==
            [i \in DOMAIN with_magnitude |-> with_magnitude[i].delta_magnitude[1]]
        spikes == {i \in 1..(Len(velocities) - 1) :
                     Abs(velocities[i + 1] - velocities[i])
                        > ACCELERATION_SPIKE_THRESHOLD}
        micro_count ==
            Len(SelectSeq(velocities, LAMBDA v : v < MICRO_ADJUSTMENT_THRESHOLD))
    IN  [mouse_activity_rate |->
            (Len(move_events) * Scale * 1000) \div window_duration_ms,
         mean_velocity |->
            IF velocities = <<>> THEN 0
            ELSE SumSeq(velocities) \div Len(velocities),
         velocity_variability |-> StdDev(velocities),
         acceleration_spikes |-> Cardinality(spikes),
         click_rate |-> (Len(click_events) * Scale * 1000) \div window_duration_ms,
         scroll_rate |-> (Len(scroll_events) * Scale * 1000) \div window_duration_ms,
         idle_ratio |-> EstimateIdleRatio(move_events, window_duration_ms),
         micro_adjustment_ratio |->
            IF velocities = <<>> THEN 0
            ELSE (micro_count * Scale) \div Len(velocities)]

BehavioralSignals_Default(keyboard, mouse) ==
    [interaction_rhythm |-> 0, friction |-> 0, motor_stability |-> 0,
     focus_continuity_proxy |-> 0]

\* compute_behavioral_signals
ComputeBehavioralSignals(keyboard, mouse) ==
    LET typing_rhythm == (100 * Scale) \div (100 + keyboard.latency_variability)
        mouse_rhythm == (50 * Scale) \div (50 + mouse.velocity_variability)
        interaction_rhythm == (typing_rhythm + mouse_rhythm) \div 2
        friction == keyboard.pause_count * (Scale \div 10)
                        + ((Scale - keyboard.burst_index) * 3) \div 10
                        + (mouse.micro_adjustment_ratio * 3) \div 10
        motor_stability ==
            Scale
              - Min((keyboard.latency_variability * Scale) \div 200, Scale \div 2)
              - Min((mouse.velocity_variability * Scale) \div 100, Scale \div 2)
        focus_continuity_proxy ==
            (keyboard.session_continuity + (Scale - mouse.idle_ratio)) \div 2
    IN  [interaction_rhythm |-> Clamp01(interaction_rhythm),
         friction |-> Clamp01(friction),
         motor_stability |-> Clamp01(motor_stability),
         focus_continuity_proxy |-> Clamp01(focus_continuity_proxy)]

\* compute_features
ComputeFeatures(window) ==
    LET keyboard ==
            ComputeKeyboardFeatures(window.keyboard_events, DurationMs(window))
        mouse == ComputeMouseFeatures(window.mouse_events, DurationMs(window))
    IN  [keyboard |-> keyboard,
         mouse |-> mouse,
         behavioral |-> ComputeBehavioralSignals(keyboard, mouse)]

(***************************************************************************)
(* HSI snapshots (core/hsi.rs)                                             *)
(*                                                                         *)
(* quality, confidence and score are f64 in [0, 1]: they are held in       *)
(* thousandths, like the features.                                         *)
(***************************************************************************)

\* HsiPrivacy with every permission granted
HsiPrivacy_AllAllowed ==
    [contains_pii |-> TRUE,
     raw_biosignals_allowed |-> TRUE,
     derived_metrics_allowed |-> TRUE,
     notes |-> <<>>]

\* impl Default for HsiPrivacy
HsiPrivacyDefault ==
    [contains_pii |-> FALSE,
     raw_biosignals_allowed |-> FALSE,
     derived_metrics_allowed |-> TRUE,
     notes |-> << "No key content or coordinates captured" >>]

\* HsiBuilder::new: instance_id is a fresh Uuid
HsiBuilderNew(uuid) == [instance_id |-> uuid, session_id |-> <<>>]

\* DateTime::to_rfc3339 and format!("w_{}", ..), format!("s_keyboard_mouse_{}", ..)
ToRfc3339(t) == <<"rfc3339", t>>
WindowIdOf(computed_at) == <<"w_", computed_at>>
SourceIdOf(instance_id) == <<"s_keyboard_mouse_", instance_id>>

\* A quality that knows only an empty and a non-empty window
Quality_TwoLevels(event_count) ==
    IF event_count = 0 THEN 0 ELSE 950

\* build: `let quality = if event_count == 0 { 0.0 } else if ...`
Quality(event_count) ==
    IF event_count = 0 THEN 0
    ELSE IF event_count < 10 THEN 500
    ELSE IF event_count < 50 THEN 750
    ELSE 950

\* build: `let confidence = quality * 0.9`
Confidence(quality) == (quality * 9) \div 10

\* build: the HsiSource inserted under source_id
HsiSourceOf(event_count) ==
    [source_type |-> "Sensor",
     quality |-> Quality(event_count),
     degraded |-> event_count < 10,
     notes |-> IF event_count < 10
               THEN << "Low event count in window" >> ELSE <<>>]

\* A reading that names the window of another build
HsiAxisReading_OtherWindow(axis, score, confidence, window_id, source_id) ==
    [axis |-> axis,
     score |-> <<score>>,
     confidence |-> confidence,
     window_id |-> <<"w_", 0>>,
     evidence_source_ids |-> << <<source_id>> >>]

\* build: one HsiAxisReading
HsiAxisReading(axis, score, confidence, window_id, source_id) ==
    [axis |-> axis,
     score |-> <<score>>,
     confidence |-> confidence,
     window_id |-> window_id,
     evidence_source_ids |-> << <<source_id>> >>]

\* build: behavior_readings
BehaviorReadings(features, confidence, window_id, source_id) ==
    LET R(axis, score) ==
            HsiAxisReading(axis, score, confidence, window_id, source_id)
        k == features.keyboard
        m == features.mouse
        b == features.behavioral
    IN  << R("typing_rate", Min(k.typing_rate \div 10, Scale)),
           R("typing_burstiness", k.burst_index),
           R("session_continuity", k.session_continuity),
           R("idle_ratio", m.idle_ratio),
           R("focus_continuity", b.focus_continuity_proxy),
           R("interaction_rhythm", b.interaction_rhythm),
           R("motor_stability", b.motor_stability),
           R("friction", b.friction),
           R("typing_cadence_stability", k.typing_cadence_stability),
           R("typing_gap_ratio", k.typing_gap_ratio),
           R("typing_interaction_intensity", k.typing_interaction_intensity),
           R("keyboard_scroll_rate", Min(k.keyboard_scroll_rate \div 5, Scale)) >>

\* HsiBuilder::build, with computed_at the value Utc::now() returns
Build(self, window, features, computed_at) ==
    LET window_id == WindowIdOf(computed_at)
        source_id == SourceIdOf(self.instance_id)
        event_count == EventCount(window)
        source == HsiSourceOf(event_count)
        confidence == Confidence(source.quality)
    IN  [observed_at_utc |-> ToRfc3339(window.end),
         computed_at_utc |-> ToRfc3339(computed_at),
         producer |-> [instance_id |-> <<self.instance_id>>],
         window_ids |-> <<window_id>>,
         windows |-> [id \in {window_id} |->
                        [start |-> ToRfc3339(window.start),
                         end |-> ToRfc3339(window.end),
                         label |-> IF window.is_session_start
                                   THEN << "session_start" >> ELSE <<>>]],
         source_ids |-> << <<source_id>> >>,
         sources |-> << [id \in {source_id} |-> source] >>,
         axes |-> << [affect |-> <<>>,
                      engagement |-> <<>>,
                      behavior |-> << BehaviorReadings(features, confidence,
                                                       window_id, source_id) >>] >>,
         privacy |-> HsiPrivacyDefault,
         meta |-> << [keyboard_events |-> Len(window.keyboard_events),
                      mouse_events |-> Len(window.mouse_events),
                      duration_ms |-> DurationMs(window),
                      is_session_start |-> window.is_session_start,
                      session_id |-> self.session_id,
                      raw_typing_rate |-> features.keyboard.typing_rate,
                      raw_mean_velocity |-> features.mouse.mean_velocity,
                      raw_click_rate |-> features.mouse.click_rate,
                      typing_tap_count |-> features.keyboard.typing_tap_count,
                      navigation_key_count |->
                          features.keyboard.navigation_key_count,
                      keyboard_scroll_rate |->
                          features.keyboard.keyboard_scroll_rate] >>]

(***************************************************************************)
(* The consumer loop (main.rs): the windows it takes and what it computes  *)
(* from each                                                               *)
(***************************************************************************)
MaxFxEvents == 3

\* Event times that put the gaps between events on both sides of every
\* threshold of features.rs (20, 100, 500, 1000, 2000 ms)
FxTimes == {0, 50, 700, 1900}

\* KeyboardEvent as features.rs reads it: timestamp, is_key_down, event_type
KeyboardInputs ==
    [timestamp : FxTimes, is_key_down : {TRUE}, event_type : {"TypingTap"}]
      \cup [timestamp : {50}, is_key_down : {FALSE},
              event_type : {"TypingTap", "NavigationKey"}]
      \cup [timestamp : {0, 50}, is_key_down : {TRUE},
              event_type : {"NavigationKey"}]

\* MouseEvent as features.rs reads it: timestamp, event_type, delta_magnitude
MouseInputs ==
    [timestamp : FxTimes, event_type : {"Move"}, delta_magnitude : {<<1>>}]
      \cup [timestamp : {50}, event_type : {"Move"},
              delta_magnitude : {<<60>>}]
      \cup [timestamp : {0}, event_type : {"LeftClick", "Scroll"},
              delta_magnitude : {<<>>}]

\* SensorEvent: the event as the window manager stores it
SensorEvent(kind, e, id) ==
    IF kind = "Keyboard"
    THEN [id |-> id, kind |-> kind, timestamp |-> e.timestamp,
          is_key_down |-> e.is_key_down, event_type |-> e.event_type]
    ELSE [id |-> id, kind |-> kind, timestamp |-> e.timestamp,
          event_type |-> e.event_type, delta_magnitude |-> e.delta_magnitude]

\* Window durations (0: Config does not reject it) and the session gap
FxDurations == {0, 2000}
FxGap == 5000

\* main.rs:309-310, 331: the loop's locals before the first iteration
InitLoop ==
    /\ paused = FALSE
    /\ config_paused = FALSE
    /\ clock = 0
    /\ last_window_check = 0
    /\ last_config_check = 0
    /\ closed = <<>>
    /\ built = <<>>

\* ServerState::new with no baselines file (server.rs:72-96), no request
\* served
InitServer ==
    /\ baselines = 0
    /\ saved_baselines = <<>>
    /\ served = 0
    /\ response = <<>>

InitConsumer ==
    /\ consumer_pc = "running"
    /\ outputs = <<>>
    /\ made = <<>>
    /\ InitLoop
    /\ InitServer

\* main.rs:271, `let hsi_builder = HsiBuilder::new()`
hsi_builder == HsiBuilderNew("instance")

\* What Utc::now() returns to build, in ms: two windows can be built within
\* the same millisecond
ClockReadings == {1000, 1001}

\* The body of `for window in window_manager.take_completed_windows()`:
\* compute_features, then hsi_builder.build
ProcessWindow(window, computed_at) ==
    LET features == ComputeFeatures(window)
    IN  [window |-> window,
         features |-> features,
         snapshot |-> Build(hsi_builder, window, features, computed_at)]

\* main.rs:370-399, Ok(event): process_event, then every completed window
\* is taken and processed
ConsumeEvent(kind, e) ==
    LET event == SensorEvent(kind, e, next_id)
        r == ProcessEventResult(current_window, completed_windows,
                                last_event_time, event,
                                window_duration, session_gap_threshold)
        t == TakeCompletedWindows(r.completed)
    IN  /\ consumer_pc = "running"
        /\ current_window' = r.current
        /\ completed_windows' = t.completed
        /\ last_event_time' = r.last
        /\ wm_call' = [op |-> "take_completed_windows", t |-> 0,
                       open |-> TRUE, due |-> FALSE]
        /\ wm_ret' = t.ret
        /\ next_id' = next_id + 1
        /\ taken_ids' = taken_ids \o WindowsIds(t.ret)
        /\ \E computed_at \in [DOMAIN t.ret -> ClockReadings] :
              outputs' = [i \in DOMAIN t.ret |->
                            ProcessWindow(t.ret[i], computed_at[i])]
        /\ UNCHANGED <<window_duration, session_gap_threshold, consumer_pc,
                       made>>
        /\ UNCHANGED <<loop_vars, srv_vars>>
        /\ UNCHANGED col_vars

ConsumeKeyboardEvent ==
    /\ next_id <= MaxFxEvents
    /\ \E e \in KeyboardInputs : ConsumeEvent("Keyboard", e)

ConsumeMouseEvent ==
    /\ next_id <= MaxFxEvents
    /\ \E e \in MouseInputs : ConsumeEvent("Mouse", e)

\* main.rs:528-535: the flush at shutdown, and the windows it completes
ConsumeShutdown ==
    LET r == CompleteCurrentWindow(current_window, completed_windows)
        t == TakeCompletedWindows(r.completed)
    IN  /\ consumer_pc = "running"
        /\ consumer_pc' = "stopped"
        /\ current_window' = r.current
        /\ completed_windows' = t.completed
        /\ wm_call' = [op |-> "take_completed_windows", t |-> 0,
                       open |-> FALSE, due |-> FALSE]
        /\ wm_ret' = t.ret
        /\ taken_ids' = taken_ids \o WindowsIds(t.ret)
        /\ \E computed_at \in [DOMAIN t.ret -> ClockReadings] :
              outputs' = [i \in DOMAIN t.ret |->
                            ProcessWindow(t.ret[i], computed_at[i])]
        /\ UNCHANGED <<window_duration, session_gap_threshold,
                       last_event_time, next_id, made>>
        /\ UNCHANGED <<loop_vars, srv_vars>>
        /\ UNCHANGED col_vars

\* compute_features and build called on a window that holds no event, as
\* EventWindow::new makes it
ComputeFeaturesOfNew ==
    /\ consumer_pc = "running"
    /\ \E computed_at \in ClockReadings :
          outputs' = << ProcessWindow(EventWindowNew(0, window_duration),
                                      computed_at) >>
    /\ UNCHANGED <<consumer_pc, made>>
    /\ UNCHANGED <<loop_vars, srv_vars>>
    /\ UNCHANGED wm_vars
    /\ UNCHANGED col_vars

NextFeatures ==
    \/ ConsumeKeyboardEvent
    \/ ConsumeMouseEvent
    \/ ConsumeShutdown
    \/ ComputeFeaturesOfNew

\* The largest number of events of a busy window
MaxBusyEvents == 50

\* The ms between two events of a busy window
BusyStep == 10

\* main.rs:370-399 in a busy window: key presses and mouse moves arrive in
\* turn, BusyStep apart
ConsumeBusyEvent ==
    /\ next_id <= MaxBusyEvents
    /\ IF next_id % 2 = 1
       THEN ConsumeEvent("Keyboard",
                         [timestamp |-> next_id * BusyStep,
                          is_key_down |-> TRUE, event_type |-> "TypingTap"])
       ELSE ConsumeEvent("Mouse",
                         [timestamp |-> next_id * BusyStep,
                          event_type |-> "Move", delta_magnitude |-> <<1>>])

NextSnapshot ==
    \/ ConsumeBusyEvent
    \/ ConsumeShutdown
    \/ ComputeFeaturesOfNew

\* What serde_json::to_string_pretty returns: Ok(text) or Err(error)
SerdeOutcomes == {"Ok", "Err"}

\* A JSON text is held as the object it denotes: the members of "{}" are
\* none, the members of a snapshot document are the fields of the snapshot
JsonObject(members) == [object |-> members]

\* serde_json::to_string_pretty(&snapshot)
ToStringPretty(snapshot, outcome) ==
    IF outcome = "Ok"
    THEN [is_ok |-> TRUE, text |-> JsonObject(<<snapshot>>)]
    ELSE [is_ok |-> FALSE, text |-> JsonObject(<<>>)]

\* HsiBuilder::build_json (hsi.rs:503-506): the String it returns
BuildJson(self, window, features, computed_at, outcome) ==
    LET snapshot == Build(self, window, features, computed_at)
        serialized == ToStringPretty(snapshot, outcome)
    IN  IF serialized.is_ok
        THEN serialized.text
        ELSE JsonObject(<<>>)           \* unwrap_or_else(|_| "{}".to_string())

\* build_json called on a window and the features computed of it
\* (hsi.rs:583-587)
BuildJsonOfOutput ==
    /\ consumer_pc = "running"
    /\ \E i \in DOMAIN outputs, computed_at \in ClockReadings,
          outcome \in SerdeOutcomes :
          made' = << [window |-> outputs[i].window,
                      features |-> outputs[i].features,
                      computed_at |-> computed_at,
                      serialized |-> outcome,
                      json |-> BuildJson(hsi_builder, outputs[i].window,
                                         outputs[i].features, computed_at,
                                         outcome)] >>
    /\ UNCHANGED <<consumer_pc, outputs>>
    /\ UNCHANGED <<loop_vars, srv_vars>>
    /\ UNCHANGED wm_vars
    /\ UNCHANGED col_vars

NextJson ==
    \/ NextSnapshot
    \/ BuildJsonOfOutput

(***************************************************************************)
(* The running pipeline (main.rs, cmd_start): the capture side, the clock, *)
(* the pause flag of the config file and the iterations of the main loop.  *)
(* Times are in ms and everything happens at a whole number of seconds.    *)
(* The capture side is reduced to the collector's running flag and the     *)
(* channel: events are published only while the collector is running.      *)
(***************************************************************************)
MaxTicks == 2
MaxCaptured == 3

\* Duration::from_secs(1): the period of the config reload and of the expiry
\* check
CheckIntervalMs == 1000

\* The window duration and the session gap threshold of the pipeline
PipeDurations == {1000}
PipeGap == 1000

\* An expiry check that leaves the open window alone
CheckWindowExpiryResult_Never(cur, completed, now) ==
    [current |-> cur, completed |-> completed]

\* WindowManager::check_window_expiry as a function of the manager's fields
CheckWindowExpiryResult(cur, completed, now) ==
    IF cur # <<>> /\ Expired(cur[1], now)
    THEN CompleteCurrentWindow(cur, completed)
    ELSE [current |-> cur, completed |-> completed]

\* The windows an operation has added to the completed set, with the
\* operation
ClosedBy(before, after, op) ==
    [i \in 1..(Len(after) - Len(before)) |->
        [ids |-> WindowIds(after[Len(before) + i]), by |-> op]]

\* main.rs:395-397 and 531-532: a snapshot is built of each window taken
BuiltOf(windows) ==
    [i \in DOMAIN windows |-> [ids |-> WindowIds(windows[i])]]

\* The event a capture callback makes of a key press or a mouse move at
\* time now
CapturedEvent(kind, now, id) ==
    IF kind = "Keyboard"
    THEN SensorEvent(kind, [timestamp |-> now, is_key_down |-> TRUE,
                            event_type |-> "TypingTap"], id)
    ELSE SensorEvent(kind, [timestamp |-> now, event_type |-> "Move",
                            delta_magnitude |-> <<1>>], id)

\* Time passes
Tick ==
    /\ clock < MaxTicks * CheckIntervalMs
    /\ clock' = clock + CheckIntervalMs
    /\ UNCHANGED <<paused, config_paused, last_window_check,
                   last_config_check, closed, built>>
    /\ UNCHANGED <<consumer_pc, outputs, made>>
    /\ UNCHANGED wm_vars
    /\ UNCHANGED col_vars
    /\ UNCHANGED srv_vars

\* `synheart-sensor pause` or `resume` run by another process
TogglePause ==
    /\ config_paused' = ~config_paused
    /\ UNCHANGED <<paused, clock, last_window_check, last_config_check,
                   closed, built>>
    /\ UNCHANGED <<consumer_pc, outputs, made>>
    /\ UNCHANGED wm_vars
    /\ UNCHANGED col_vars
    /\ UNCHANGED srv_vars

\* The capture callback of a running collector publishes an event stamped
\* with the current time: key presses and mouse moves in turn
Capture ==
    /\ running
    /\ next_id <= MaxCaptured
    /\ channel' = TrySend(channel,
                          CapturedEvent(IF next_id % 2 = 1 THEN "Keyboard"
                                        ELSE "Mouse", clock, next_id))
    /\ next_id' = next_id + 1
    /\ UNCHANGED <<window_duration, session_gap_threshold, current_window,
                   completed_windows, last_event_time, wm_call, wm_ret,
                   taken_ids>>
    /\ UNCHANGED <<backend, config, running, thread_handle, threads,
                   caller_pc, join_target, start_result, stopped>>
    /\ UNCHANGED out_vars

\* One iteration of `while running.load(..)` (main.rs:333-393): the config
\* reload, the receive with its timeout, and take_completed_windows
LoopIterationCore ==
    /\ consumer_pc = "running"
    /\ \E load_ok \in BOOLEAN :
        LET \* lines 335-362: the config reload
            reload == clock - last_config_check >= CheckIntervalMs
            changed == reload /\ load_ok /\ config_paused # paused
            now_paused == IF changed THEN config_paused ELSE paused
            pausing == changed /\ now_paused
            resuming == changed /\ ~now_paused
            \* lines 343-351: stop, flush, take and drop, drain
            f == IF pausing
                 THEN CompleteCurrentWindow(current_window, completed_windows)
                 ELSE [current |-> current_window,
                       completed |-> completed_windows]
            dropped == IF pausing THEN TakeCompletedWindows(f.completed)
                       ELSE [ret |-> <<>>, completed |-> f.completed]
            drained == IF pausing THEN <<>> ELSE channel
            \* lines 369-391: recv_timeout, unless paused (lines 364-367)
            received == ~now_paused /\ drained # <<>>
            timed_out == ~now_paused /\ drained = <<>>
            check == timed_out
                       /\ clock - last_window_check >= CheckIntervalMs
            r == IF received
                 THEN ProcessEventResult(f.current, dropped.completed,
                                         last_event_time, drained[1],
                                         window_duration,
                                         session_gap_threshold)
                 ELSE IF check
                 THEN [current |-> CheckWindowExpiryResult(
                                       f.current, dropped.completed,
                                       clock).current,
                       completed |-> CheckWindowExpiryResult(
                                       f.current, dropped.completed,
                                       clock).completed,
                       last |-> last_event_time]
                 ELSE [current |-> f.current, completed |-> dropped.completed,
                       last |-> last_event_time]
            \* lines 394-399: the completed windows, unless paused
            t == IF now_paused THEN [ret |-> <<>>, completed |-> r.completed]
                 ELSE TakeCompletedWindows(r.completed)
        IN  /\ paused' = now_paused
            /\ last_config_check' = IF reload THEN clock ELSE last_config_check
            /\ last_window_check' = IF check THEN clock ELSE last_window_check
            /\ running' = IF pausing THEN FALSE
                          ELSE IF resuming THEN TRUE ELSE running
            /\ stopped' = IF pausing THEN TRUE
                          ELSE IF resuming THEN FALSE ELSE stopped
            /\ channel' = IF received THEN Tail(drained) ELSE drained
            /\ current_window' = r.current
            /\ completed_windows' = t.completed
            /\ last_event_time' = r.last
            /\ wm_call' = [op |-> IF now_paused THEN "flush"
                                  ELSE "take_completed_windows",
                           t |-> 0, open |-> current_window # <<>>,
                           due |-> FALSE]
            /\ wm_ret' = IF pausing THEN dropped.ret ELSE t.ret
            /\ taken_ids' = taken_ids \o WindowsIds(dropped.ret)
                                      \o WindowsIds(t.ret)
            /\ built' = built \o BuiltOf(t.ret)
            /\ closed' = closed
                           \o ClosedBy(completed_windows, f.completed, "pause")
                           \o ClosedBy(dropped.completed, r.completed,
                                       IF received THEN "process_event"
                                       ELSE "check_window_expiry")
            /\ UNCHANGED <<config_paused, clock, consumer_pc, made>>
            /\ UNCHANGED <<window_duration, session_gap_threshold, next_id>>
            /\ UNCHANGED <<backend, config, thread_handle, threads, caller_pc,
                           join_target, start_result>>

\* main.rs:394-399: the snapshot built of each window the iteration took;
\* build reads the clock within the ms of the iteration
BuildTaken(windows) ==
    outputs' = [i \in DOMAIN windows |-> ProcessWindow(windows[i], clock)]

\* One iteration of `while running.load(..)` (main.rs:333-399)
LoopIteration ==
    /\ LoopIterationCore
    /\ UNCHANGED srv_vars
    /\ BuildTaken(IF paused' THEN <<>> ELSE wm_ret')

\* Ctrl+C: the loop ends, the collector is stopped and the open window is
\* flushed (main.rs:520-535)
LoopShutdown ==
    LET r == CompleteCurrentWindow(current_window, completed_windows)
        t == TakeCompletedWindows(r.completed)
    IN  /\ consumer_pc = "running"
        /\ consumer_pc' = "stopped"
        /\ running' = FALSE
        /\ stopped' = TRUE
        /\ current_window' = r.current
        /\ completed_windows' = t.completed
        /\ wm_call' = [op |-> "take_completed_windows", t |-> 0,
                       open |-> FALSE, due |-> FALSE]
        /\ wm_ret' = t.ret
        /\ taken_ids' = taken_ids \o WindowsIds(t.ret)
        /\ BuildTaken(t.ret)
        /\ built' = built \o BuiltOf(t.ret)
        /\ closed' = closed
                       \o ClosedBy(completed_windows, r.completed, "shutdown")
        /\ UNCHANGED <<paused, config_paused, clock, last_window_check,
                       last_config_check, made>>
        /\ UNCHANGED <<window_duration, session_gap_threshold,
                       last_event_time, next_id>>
        /\ UNCHANGED <<backend, config, thread_handle, threads, channel,
                       caller_pc, join_target, start_result>>
    /\ UNCHANGED srv_vars

NextPipeline ==
    \/ Tick
    \/ TogglePause
    \/ Capture
    \/ LoopIteration
    \/ LoopShutdown

(***************************************************************************)
(* The HTTP ingest server (server.rs).  A request is handled in one step.  *)
(* The BehaviorProcessor of the synheart_flux crate is reduced to the      *)
(* number of sessions it has folded into its baselines; the gateway is     *)
(* reduced to how it answers the forwarded session.                        *)
(***************************************************************************)
MaxRequests == 3

\* processor.process(&session_json) and the parse of its output: an error,
\* output that is no HsiSnapshot, or a snapshot
FluxOutcomes == {"Err", "Unparsable", "Ok"}

\* http_client.post(..).send(): no response (connection error, timeout), or
\* a response with a status
GatewayOutcomes ==
    {[sent |-> FALSE, status |-> 0]}
        \cup {[sent |-> TRUE, status |-> st] : st \in {200, 204, 401, 500}}

IsSuccess(status) == status >= 200 /\ status <= 299

\* A gateway that accepts everything
GatewayFailed_Never(gateway) == FALSE

\* server.rs:228-263: send() returned Err, or the status is no success
GatewayFailed(gateway) == ~gateway.sent \/ ~IsSuccess(gateway.status)

ErrorResponse(status, code) ==
    [status |-> status, code |-> code, hsi_payload |-> <<>>]

\* The response of ingest (server.rs:153-273) to a session the processor
\* answered with `flux` and the gateway with `gateway`; hsi is the snapshot
\* parsed from the output of the processor
IngestResponse(flux, gateway, hsi) ==
    IF flux = "Err" THEN ErrorResponse(500, "FLUX_ERROR")
    ELSE IF flux = "Unparsable" THEN ErrorResponse(500, "PARSE_ERROR")
    ELSE IF GatewayFailed(gateway) THEN ErrorResponse(502, "GATEWAY_ERROR")
    ELSE [status |-> 200, code |-> "ok", hsi_payload |-> <<hsi>>]

\* POST /ingest (server.rs:153-273).  process() folds the session into the
\* baselines it holds in memory whenever it succeeds; save_baselines runs
\* only on the path that answers 200, and an error of the write is ignored
\* (server.rs:97-108).
Ingest ==
    /\ served < MaxRequests
    /\ \E flux \in FluxOutcomes, gateway \in GatewayOutcomes,
          write_ok \in BOOLEAN :
          LET processed == IF flux = "Err" THEN baselines ELSE baselines + 1
              answer == IngestResponse(flux, gateway, [session |-> served + 1])
          IN  /\ baselines' = processed
              /\ saved_baselines' = IF answer.status = 200 /\ write_ok
                                    THEN <<processed>>
                                    ELSE saved_baselines
              /\ served' = served + 1
              /\ response' = << [session |-> served + 1, flux |-> flux,
                                  gateway |-> gateway, answer |-> answer] >>
    /\ UNCHANGED <<consumer_pc, outputs, made, loop_vars>>
    /\ UNCHANGED wm_vars
    /\ UNCHANGED col_vars

NextServer == Ingest

(***************************************************************************)
(* Event constructors (collector/types.rs)                                 *)
(*                                                                         *)
(* Scroll deltas are f64: they are held in tenths of a line.               *)
(***************************************************************************)
ScrollUnit == 10
MaxScrollDelta == 55

ScrollDeltas == (0 - MaxScrollDelta)..MaxScrollDelta

\* `as i32` on a non-negative f64: the fraction is dropped
AsI32(tenths) == tenths \div ScrollUnit

\* MouseEvent::scroll, the bucket of (delta_x.abs() + delta_y.abs()) as i32
ScrollBucket(total_tenths) ==
    LET total == AsI32(total_tenths)
    IN  IF total < 3 THEN "Small"
        ELSE IF total <= 10 THEN "Medium"
        ELSE "Large"

\* MouseEvent::scroll
MouseEventScroll(delta_x, delta_y) ==
    [event_type |-> "Scroll",
     delta_magnitude |-> <<>>,
     scroll_direction |->
        << IF Abs(delta_y) > Abs(delta_x)
           THEN (IF delta_y > 0 THEN "Down" ELSE "Up")
           ELSE IF delta_x > 0 THEN "Right" ELSE "Left" >>,
     scroll_magnitude |-> << ScrollBucket(Abs(delta_x) + Abs(delta_y)) >>]

\* The arguments of a call of MouseEvent::scroll
InitScroll ==
    \E delta_x \in ScrollDeltas, delta_y \in ScrollDeltas :
        made = << [delta_x |-> delta_x, delta_y |-> delta_y, event |-> <<>>] >>

\* MouseEvent::scroll(delta_x, delta_y) returning
Scroll ==
    /\ made # <<>>
    /\ made[1].event = <<>>
    /\ made' = << [made[1] EXCEPT !.event =
                      << MouseEventScroll(made[1].delta_x, made[1].delta_y) >>] >>
    /\ UNCHANGED <<consumer_pc, outputs>>
    /\ UNCHANGED <<loop_vars, srv_vars>>
    /\ UNCHANGED wm_vars
    /\ UNCHANGED col_vars

NextConstructors == Scroll

\* C18: MouseEvent::scroll(dx, dy) buckets by total = |dx| + |dy| for every
\* pair of deltas, fractional ones included: total < 3 gives Small,
\* 3 <= total <= 10 gives Medium, total > 10 gives Large.
C18_ScrollBuckets ==
    (made # <<>> /\ made[1].event # <<>>) =>
        LET total == Abs(made[1].delta_x) + Abs(made[1].delta_y)
        IN  made[1].event[1].scroll_magnitude =
              << IF total < 3 * ScrollUnit THEN "Small"
                 ELSE IF total <= 10 * ScrollUnit THEN "Medium"
                 ELSE "Large" >>

\* C18 for whole numbers of lines
C18_ScrollBuckets_WholeLines ==
    (made # <<>> /\ made[1].event # <<>>
                /\ made[1].delta_x % ScrollUnit = 0
                /\ made[1].delta_y % ScrollUnit = 0) =>
        LET total == Abs(made[1].delta_x) + Abs(made[1].delta_y)
        IN  made[1].event[1].scroll_magnitude =
              << IF total < 3 * ScrollUnit THEN "Small"
                 ELSE IF total <= 10 * ScrollUnit THEN "Medium"
                 ELSE "Large" >>

(***************************************************************************)
(* The native callbacks (collector/macos.rs, collector/windows.rs): what   *)
(* they publish for the input the OS hands them.  A native event is held   *)
(* as the OS describes it: its type, the physical key, the movement and    *)
(* the pointer position, the wheel delta.  Scroll deltas are in tenths of  *)
(* a line, movements and positions in pixels.                              *)
(***************************************************************************)
MaxInputs == 2

NavigationKeys ==
    {"LeftArrow", "RightArrow", "DownArrow", "UpArrow",
     "PageUp", "PageDown", "Home", "End"}

\* The keys pressed: the navigation keys and a letter
Keys == NavigationKeys \cup {"A"}

\* kVK_* of the key: what KEYBOARD_EVENT_KEYCODE holds on macOS
MacKeyCode(key) ==
    CASE key = "LeftArrow" -> 123
      [] key = "RightArrow" -> 124
      [] key = "DownArrow" -> 125
      [] key = "UpArrow" -> 126
      [] key = "PageUp" -> 116
      [] key = "PageDown" -> 121
      [] key = "Home" -> 115
      [] key = "End" -> 119
      [] OTHER -> 0

\* is_navigation_key (macos.rs:254-276)
IsNavigationKey(keycode) ==
    keycode \in {123, 124, 125, 126, 116, 121, 115, 119}

\* KeyboardEvent::with_type(is_key_down, event_type)
KeyboardEventWithType(is_key_down, event_type) ==
    [kind |-> "Keyboard", is_key_down |-> is_key_down,
     event_type |-> event_type]

\* KeyboardEvent::new(is_key_down): a typing key event (macos.rs:312-316)
KeyboardEventNew(is_key_down) ==
    KeyboardEventWithType(is_key_down, "TypingTap")

\* classify_keyboard_event (macos.rs:282-291)
ClassifyKeyboardEvent(event) ==
    IF IsNavigationKey(MacKeyCode(event.key))
    THEN "NavigationKey"
    ELSE "TypingTap"

\* MouseEvent::movement (types.rs:79-88)
MouseEventMovement(delta_x, delta_y) ==
    [kind |-> "Mouse", event_type |-> "Move",
     delta_magnitude |-> << Sqrt(delta_x * delta_x + delta_y * delta_y) >>]

\* MouseEvent::click (types.rs:91-103)
MouseEventClick(is_left) ==
    [kind |-> "Mouse",
     event_type |-> IF is_left THEN "LeftClick" ELSE "RightClick",
     delta_magnitude |-> <<>>]

\* A native event of the type, with nothing else in it
NativeEvent(type) ==
    [type |-> type, key |-> "none", delta_x |-> 0, delta_y |-> 0,
     pt |-> <<0, 0>>, wheel_delta |-> 0]

\* The CGEvents the tap is created for (macos.rs:142-163)
MacEvents ==
    {[NativeEvent(t) EXCEPT !.key = k] : t \in {"KeyDown", "KeyUp"}, k \in Keys}
      \cup {NativeEvent(t) :
              t \in {"FlagsChanged", "LeftMouseDown", "LeftMouseUp",
                     "RightMouseDown", "RightMouseUp"}}
      \cup {NativeEvent("MouseMoved"),
            [NativeEvent("MouseMoved") EXCEPT !.delta_x = 3, !.delta_y = 4]}
      \cup {[NativeEvent("ScrollWheel") EXCEPT !.delta_y = d] : d \in {-10, 35}}

\* The messages the low-level hooks are called with (windows.rs:147-258)
WinEvents ==
    {[NativeEvent(t) EXCEPT !.key = k] :
        t \in {"WM_KEYDOWN", "WM_KEYUP"}, k \in Keys}
      \cup {NativeEvent(t) :
              t \in {"WM_SYSKEYDOWN", "WM_SYSKEYUP", "WM_LBUTTONDOWN",
                     "WM_LBUTTONUP", "WM_RBUTTONDOWN", "WM_RBUTTONUP",
                     "WM_MBUTTONDOWN", "WM_MBUTTONUP"}}
      \cup {[NativeEvent("WM_MOUSEMOVE") EXCEPT !.pt = pt] :
              pt \in {<<5, 5>>, <<8, 9>>}}
      \cup {[NativeEvent("WM_MOUSEWHEEL") EXCEPT !.wheel_delta = d] :
              d \in {-120, 360}}

\* A callback that reports the release of the left button and nothing else
ProcessCgEvent_ClickOnUp(event) ==
    IF event.type = "LeftMouseUp" THEN << MouseEventClick(TRUE) >> ELSE <<>>

\* process_cg_event (macos.rs:298-354): Option<SensorEvent>
ProcessCgEvent(event) ==
    CASE event.type = "KeyDown" ->
            << KeyboardEventWithType(TRUE, ClassifyKeyboardEvent(event)) >>
      [] event.type = "KeyUp" ->
            << KeyboardEventWithType(FALSE, ClassifyKeyboardEvent(event)) >>
      [] event.type = "FlagsChanged" -> << KeyboardEventNew(TRUE) >>
      [] event.type = "MouseMoved" ->
            << MouseEventMovement(event.delta_x, event.delta_y) >>
      [] event.type = "LeftMouseDown" -> << MouseEventClick(TRUE) >>
      [] event.type = "LeftMouseUp" -> <<>>
      [] event.type = "RightMouseDown" -> << MouseEventClick(FALSE) >>
      [] event.type = "RightMouseUp" -> <<>>
      [] event.type = "ScrollWheel" ->
            << [kind |-> "Mouse"]
                  @@ MouseEventScroll(event.delta_x, event.delta_y) >>
      [] OTHER -> <<>>

\* keyboard_hook_proc (windows.rs:147-176): the event it sends, if any
KeyboardHookProc(event) ==
    LET is_key_down == event.type \in {"WM_KEYDOWN", "WM_SYSKEYDOWN"}
    IN  IF event.type \in {"WM_KEYDOWN", "WM_KEYUP",
                           "WM_SYSKEYDOWN", "WM_SYSKEYUP"}
        THEN << KeyboardEventNew(is_key_down) >>
        ELSE <<>>

\* mouse_hook_proc (windows.rs:179-258): the event it sends, if any, and
\* LAST_MOUSE_X, LAST_MOUSE_Y after it
MouseHookProc(event, last_mouse) ==
    CASE event.type = "WM_MOUSEMOVE" ->
            LET delta_x == IF last_mouse = <<0, 0>> THEN 0
                           ELSE event.pt[1] - last_mouse[1]
                delta_y == IF last_mouse = <<0, 0>> THEN 0
                           ELSE event.pt[2] - last_mouse[2]
            IN  [event |-> IF delta_x # 0 \/ delta_y # 0
                           THEN << MouseEventMovement(delta_x, delta_y) >>
                           ELSE <<>>,
                 last_mouse |-> event.pt]
      [] event.type = "WM_LBUTTONDOWN" ->
            [event |-> << MouseEventClick(TRUE) >>, last_mouse |-> last_mouse]
      [] event.type = "WM_RBUTTONDOWN" ->
            [event |-> << MouseEventClick(FALSE) >>, last_mouse |-> last_mouse]
      [] event.type = "WM_MOUSEWHEEL" ->
            [event |-> << [kind |-> "Mouse"]
                            @@ MouseEventScroll(0,
                                  (event.wheel_delta * ScrollUnit) \div 120) >>,
             last_mouse |-> last_mouse]
      [] OTHER -> [event |-> <<>>, last_mouse |-> last_mouse]

\* The input the OS is about to hand to the callbacks of a backend
InitCallbacks ==
    \E b \in {"macos", "windows"}, n \in 1..MaxInputs :
        \E inputs \in [1..n -> IF b = "macos" THEN MacEvents ELSE WinEvents] :
            made = << [backend |-> b, inputs |-> inputs, done |-> 0,
                       last_mouse |-> <<0, 0>>, published |-> <<>>] >>

\* event_callback (macos.rs:185-205) called with the next input
EventCallback ==
    /\ made # <<>>
    /\ made[1].backend = "macos"
    /\ made[1].done < Len(made[1].inputs)
    /\ LET event == made[1].inputs[made[1].done + 1]
       IN  made' = << [made[1] EXCEPT
                          !.done = @ + 1,
                          !.published = @ \o ProcessCgEvent(event)] >>
    /\ UNCHANGED <<consumer_pc, outputs>>
    /\ UNCHANGED <<loop_vars, srv_vars>>
    /\ UNCHANGED wm_vars
    /\ UNCHANGED col_vars

\* keyboard_hook_proc or mouse_hook_proc (windows.rs:147-258) called with
\* the next input
HookProc ==
    /\ made # <<>>
    /\ made[1].backend = "windows"
    /\ made[1].done < Len(made[1].inputs)
    /\ LET event == made[1].inputs[made[1].done + 1]
           key == KeyboardHookProc(event)
           mouse == MouseHookProc(event, made[1].last_mouse)
       IN  made' = << [made[1] EXCEPT
                          !.done = @ + 1,
                          !.last_mouse = mouse.last_mouse,
                          !.published = @ \o key \o mouse.event] >>
    /\ UNCHANGED <<consumer_pc, outputs>>
    /\ UNCHANGED <<loop_vars, srv_vars>>
    /\ UNCHANGED wm_vars
    /\ UNCHANGED col_vars

NextCallbacks ==
    \/ EventCallback
    \/ HookProc

\* The inputs the callbacks have been called with
Handled == SubSeq(made[1].inputs, 1, made[1].done)

ButtonDown == {"LeftMouseDown", "RightMouseDown",
               "WM_LBUTTONDOWN", "WM_RBUTTONDOWN"}
ButtonUp == {"LeftMouseUp", "RightMouseUp", "WM_LBUTTONUP", "WM_RBUTTONUP"}
LeftButton == {"LeftMouseDown", "LeftMouseUp",
               "WM_LBUTTONDOWN", "WM_LBUTTONUP"}

KeyTypes == {"KeyDown", "KeyUp", "WM_KEYDOWN", "WM_KEYUP"}

\* C30: in every native backend, a key event whose virtual-key code is one
\* of the eight navigation keys is published with classification
\* NavigationKey and every other key event with TypingTap; the
\* classification is made in the capture callback and the key code is not
\* stored on the event.
C30_NavigationClassified ==
    made # <<>> =>
        LET keys == SelectSeq(Handled, LAMBDA e : e.type \in KeyTypes)
            events == SelectSeq(made[1].published,
                                LAMBDA e : e.kind = "Keyboard")
        IN  (\A i \in 1..made[1].done :
                 made[1].inputs[i].type \in KeyTypes) =>
               /\ Len(events) = Len(keys)
               /\ \A i \in DOMAIN events :
                     /\ events[i].event_type =
                           IF keys[i].key \in NavigationKeys
                           THEN "NavigationKey" ELSE "TypingTap"
                     /\ DOMAIN events[i] =
                           {"kind", "is_key_down", "event_type"}

(***************************************************************************)
(* Properties of the feature computation                                   *)
(***************************************************************************)

\* A window with zero events, or one whose duration is not positive
Degenerate(w) == EventCount(w) = 0 \/ DurationMs(w) <= 0

AllZero(r) == \A f \in DOMAIN r : r[f] = 0

InUnit(x) == 0 <= x /\ x <= Scale

\* C15: for every window the consumer loop processes, and for the empty
\* window, every BehavioralSignals field and every ratio or index feature
\* lies in [0, 1].
C15_FeatureRanges ==
    \A i \in DOMAIN outputs :
        LET f == outputs[i].features
        IN  /\ \A b \in DOMAIN f.behavioral : InUnit(f.behavioral[b])
            /\ InUnit(f.keyboard.burst_index)
            /\ InUnit(f.keyboard.session_continuity)
            /\ InUnit(f.keyboard.typing_cadence_stability)
            /\ InUnit(f.keyboard.typing_gap_ratio)
            /\ InUnit(f.keyboard.typing_interaction_intensity)
            /\ InUnit(f.mouse.idle_ratio)
            /\ InUnit(f.mouse.micro_adjustment_ratio)

\* The number of key-down events of a class among keyboard events
PressCount(events, class) ==
    Cardinality({j \in DOMAIN events :
                    events[j].event_type = class /\ events[j].is_key_down})

\* C16: for a positive window duration d, typing_tap_count is the number of
\* TypingTap key-down events and typing_rate is that count over d;
\* navigation_key_count is the number of NavigationKey key-down events and
\* keyboard_scroll_rate is that count over d; key-up events count in neither.
C16_TapAndNavigationCounts ==
    \A i \in DOMAIN outputs :
        LET w == outputs[i].window
            k == outputs[i].features.keyboard
            taps == PressCount(w.keyboard_events, "TypingTap")
            navs == PressCount(w.keyboard_events, "NavigationKey")
        IN  DurationMs(w) > 0 =>
              /\ k.typing_tap_count = taps
              /\ k.typing_rate = (taps * 1000000) \div DurationMs(w)
              /\ k.navigation_key_count = navs
              /\ k.keyboard_scroll_rate = (navs * 1000000) \div DurationMs(w)
              /\ (taps = 0 => k.typing_rate = 0)

\* a window of positive duration with a typing key-down, a key-up and a
\* navigation key-down has been processed
C16_Witness ==
    \E i \in DOMAIN outputs :
        LET w == outputs[i].window
        IN  /\ DurationMs(w) > 0
            /\ PressCount(w.keyboard_events, "TypingTap") = 1
            /\ PressCount(w.keyboard_events, "NavigationKey") = 1
            /\ Len(w.keyboard_events) = 3
            /\ outputs[i].features.keyboard.typing_tap_count = 1

\* The Move events of a window, in the order they were stored
MoveEvents(w) == SelectSeq(w.mouse_events, LAMBDA e : e.event_type = "Move")

\* The idle time of a sequence of Move events: the excess over 1000 ms of
\* every gap between consecutive events
IdleTimeMs(moves) ==
    LET gaps == [j \in 1..(Len(moves) - 1) |->
                    moves[j + 1].timestamp - moves[j].timestamp]
    IN  SumSeq([j \in DOMAIN gaps |->
                   IF gaps[j] > 1000 THEN gaps[j] - 1000 ELSE 0])

\* The idle_ratio the claim C31 gives a window
IdleRatioOf(w) ==
    IF Len(MoveEvents(w)) < 2 THEN Scale
    ELSE Min((IdleTimeMs(MoveEvents(w)) * Scale) \div DurationMs(w), Scale)

\* C31: every window with fewer than two Move events, including a window
\* with no mouse events at all, has idle_ratio = 1.0; for windows with two or
\* more Move events idle_ratio is the sum over consecutive Move gaps
\* exceeding 1000 ms of (gap - 1000 ms), divided by the window duration and
\* capped at 1.0.
C31_IdleRatio ==
    \A i \in DOMAIN outputs :
        LET w == outputs[i].window
        IN  (Len(MoveEvents(w)) < 2 \/ DurationMs(w) > 0) =>
               outputs[i].features.mouse.idle_ratio = IdleRatioOf(w)

\* C31 for the windows of positive duration that hold an event of any kind
C31_IdleRatio_NotDegenerate ==
    \A i \in DOMAIN outputs :
        LET w == outputs[i].window
        IN  (~IsEmpty(w) /\ DurationMs(w) > 0) =>
               outputs[i].features.mouse.idle_ratio = IdleRatioOf(w)

\* C31 for the windows of positive duration that hold a mouse event
C31_IdleRatio_WithMouseEvents ==
    \A i \in DOMAIN outputs :
        LET w == outputs[i].window
        IN  (w.mouse_events # <<>> /\ DurationMs(w) > 0) =>
               outputs[i].features.mouse.idle_ratio = IdleRatioOf(w)

\* The typing metrics of KeyboardFeatures
TypingMetrics(k) ==
    [f \in {"typing_rate", "typing_tap_count", "pause_count", "mean_pause_ms",
            "latency_variability", "hold_time_mean", "burst_index",
            "session_continuity", "typing_cadence_stability",
            "typing_gap_ratio", "typing_interaction_intensity"} |-> k[f]]

\* The window without its NavigationKey events
WithoutNavigation(w) ==
    [w EXCEPT !.keyboard_events = TypingEvents(w.keyboard_events)]

\* C17: navigation keys never influence typing metrics: a window and the
\* window of the same duration that holds the same events with the
\* NavigationKey events removed (which may leave no keyboard event at all)
\* have the same typing metrics.
C17_NavigationNeverInfluencesTyping ==
    \A i \in DOMAIN outputs :
        TypingMetrics(outputs[i].features.keyboard)
            = TypingMetrics(ComputeFeatures(
                                WithoutNavigation(outputs[i].window)).keyboard)

(***************************************************************************)
(* Properties of the snapshots                                             *)
(***************************************************************************)

\* The behavior readings of a snapshot
Readings(snapshot) == snapshot.axes[1].behavior[1]

\* The one source of a snapshot
SourceOf(snapshot) == snapshot.sources[1][snapshot.source_ids[1][1]]

\* C19: in every snapshot returned by build, the source quality is a step
\* function of the window's total event count n (n = 0: 0.0; 1 <= n < 10:
\* 0.5; 10 <= n < 50: 0.75; n >= 50: 0.95), degraded is true exactly when
\* n < 10, and every reading's confidence equals quality * 0.9.
C19_QualitySteps ==
    \A i \in DOMAIN outputs :
        LET n == Len(outputs[i].window.keyboard_events)
                   + Len(outputs[i].window.mouse_events)
            source == SourceOf(outputs[i].snapshot)
            readings == Readings(outputs[i].snapshot)
        IN  /\ (n = 0) => source.quality = 0
            /\ (1 <= n /\ n < 10) => source.quality = Scale \div 2
            /\ (10 <= n /\ n < 50) => source.quality = (3 * Scale) \div 4
            /\ (n >= 50) => source.quality = (95 * Scale) \div 100
            /\ source.degraded <=> (n < 10)
            /\ readings # <<>>
            /\ \A j \in DOMAIN readings :
                  10 * readings[j].confidence = 9 * source.quality

\* The snapshot of a window of at least 50 events has been built at
\* shutdown: it has the highest quality and is not degraded
C19_Witness ==
    /\ consumer_pc = "stopped"
    /\ \E i \in DOMAIN outputs :
          /\ EventCount(outputs[i].window) >= 50
          /\ SourceOf(outputs[i].snapshot).quality = 950
          /\ ~ SourceOf(outputs[i].snapshot).degraded

\* C20: every snapshot returned by build, for every window and every
\* features value, carries the privacy attestation contains_pii = false,
\* raw_biosignals_allowed = false, derived_metrics_allowed = true.
C20_PrivacyAttestation ==
    \A i \in DOMAIN outputs :
        LET privacy == outputs[i].snapshot.privacy
        IN  /\ privacy.contains_pii = FALSE
            /\ privacy.raw_biosignals_allowed = FALSE
            /\ privacy.derived_metrics_allowed = TRUE

\* A snapshot has been built of a window that holds keyboard and mouse
\* events
C20_Witness ==
    \E i \in DOMAIN outputs :
        /\ outputs[i].window.keyboard_events # <<>>
        /\ outputs[i].window.mouse_events # <<>>
        /\ outputs[i].snapshot.privacy.derived_metrics_allowed

\* The keyboard events of a window are in the order of their timestamps
KeyboardInOrder(w) ==
    \A j \in 1..(Len(w.keyboard_events) - 1) :
        w.keyboard_events[j].timestamp <= w.keyboard_events[j + 1].timestamp

\* C21: for every window w that the window manager can produce, every axis
\* reading in build(w, compute_features(w)) has confidence in [0, 1] and a
\* score that is either absent or in [0, 1].
C21_ReadingRanges ==
    \A i \in DOMAIN outputs :
        \A j \in DOMAIN Readings(outputs[i].snapshot) :
            LET reading == Readings(outputs[i].snapshot)[j]
            IN  /\ InUnit(reading.confidence)
                /\ reading.score = <<>> \/ InUnit(reading.score[1])

\* C21 for the windows whose keyboard events arrived in timestamp order
C21_ReadingRanges_InOrder ==
    \A i \in DOMAIN outputs :
        KeyboardInOrder(outputs[i].window) =>
            \A j \in DOMAIN Readings(outputs[i].snapshot) :
                LET reading == Readings(outputs[i].snapshot)[j]
                IN  /\ InUnit(reading.confidence)
                    /\ reading.score = <<>> \/ InUnit(reading.score[1])

\* C22: every snapshot is referentially consistent: window_ids has exactly
\* one id and it is a key of windows; source_ids has exactly one id and it
\* is a key of sources; every axis reading's window_id is that window id and
\* its evidence_source_ids contain only that source id; there is exactly one
\* reading per axis name.
C22_ReferentiallyConsistent ==
    \A i \in DOMAIN outputs :
        LET snapshot == outputs[i].snapshot
            readings == Readings(snapshot)
        IN  /\ Len(snapshot.window_ids) = 1
            /\ snapshot.window_ids[1] \in DOMAIN snapshot.windows
            /\ snapshot.source_ids # <<>>
            /\ Len(snapshot.source_ids[1]) = 1
            /\ snapshot.sources # <<>>
            /\ snapshot.source_ids[1][1] \in DOMAIN snapshot.sources[1]
            /\ \A j \in DOMAIN readings :
                  /\ readings[j].window_id = snapshot.window_ids[1]
                  /\ readings[j].evidence_source_ids # <<>>
                  /\ \A e \in DOMAIN readings[j].evidence_source_ids[1] :
                        readings[j].evidence_source_ids[1][e]
                            = snapshot.source_ids[1][1]
            /\ \A j, k \in DOMAIN readings :
                  readings[j].axis = readings[k].axis => j = k

\* The snapshot of a window that holds events has been built, with its
\* twelve readings
C22_Witness ==
    /\ next_id > 1
    /\ \E i \in DOMAIN outputs :
          /\ ~ IsEmpty(outputs[i].window)
          /\ Len(Readings(outputs[i].snapshot)) = 12
          /\ outputs[i].snapshot.window_ids
                = << WindowIdOf(1001) >>

\* A JSON text that is a complete snapshot document: it has the members of
\* the snapshot build makes of the window and the features
IsSnapshotDocument(call) ==
    call.json = JsonObject(<< Build(hsi_builder, call.window, call.features,
                                    call.computed_at) >>)

\* C24: if serializing a snapshot fails the failure is reported to the
\* caller as an explicit failure: the String build_json returns (which
\* cannot carry an error) is always a complete snapshot document.
C24_DocumentOrFailure ==
    \A i \in DOMAIN made : IsSnapshotDocument(made[i])

\* A step that answers a request whose session the processor turned into a
\* snapshot and whose forwarding failed
ForwardingFails ==
    /\ served' = served + 1
    /\ response'[1].flux = "Ok"
    /\ \/ ~response'[1].gateway.sent
       \/ ~IsSuccess(response'[1].gateway.status)

\* C25: when POST /ingest has processed a session locally but forwarding to
\* the gateway fails (connection error or non-success status), the server
\* answers 502 Bad Gateway with error code GATEWAY_ERROR and no HSI payload,
\* and does not persist baselines for that request.
C25_GatewayErrorOnForwardFailure ==
    [][ForwardingFails =>
          /\ response'[1].answer.status = 502
          /\ response'[1].answer.code = "GATEWAY_ERROR"
          /\ response'[1].answer.hsi_payload = <<>>
          /\ saved_baselines' = saved_baselines]_vars

\* After a request that was forwarded and whose baselines were saved, a
\* request was processed but the gateway refused it or could not be
\* reached: the file still holds the baselines of the earlier request
C25_Witness ==
    /\ response # <<>>
    /\ response[1].flux = "Ok"
    /\ GatewayFailed(response[1].gateway)
    /\ response[1].answer.status = 502
    /\ saved_baselines # <<>>
    /\ saved_baselines[1] < baselines

(***************************************************************************)
(* Properties of the pipeline                                              *)
(***************************************************************************)

\* The ids of the events of each window of a history
IdsOf(history) == [i \in DOMAIN history |-> history[i].ids]

\* C23: in the running pipeline every window that the window manager closes
\* (by rollover, session boundary, expiry check, or flush on pause or
\* shutdown) leads to exactly one snapshot being built: after every
\* iteration of the loop the windows snapshots were built of are the windows
\* closed, each once.
C23_OneSnapshotPerClosedWindow ==
    IdsOf(built) = IdsOf(closed)

\* C23 without the flush on pause: the windows closed by rollover, session
\* boundary, expiry check or the flush on shutdown are the windows snapshots
\* were built of, each once; a window closed by the flush on pause is
\* discarded without a snapshot.
C23_OneSnapshotUnlessPaused ==
    /\ IdsOf(built) = IdsOf(SelectSeq(closed, LAMBDA c : c.by # "pause"))
    /\ \A i \in DOMAIN closed : \A j \in DOMAIN built :
          closed[i].by = "pause" => built[j].ids # closed[i].ids

\* The loop has built snapshots of a window closed by an expiry check, of
\* one closed by an event and of one closed by the flush on shutdown
C23_Witness ==
    /\ consumer_pc = "stopped"
    /\ Len(built) = 3
    /\ \E i \in DOMAIN closed : closed[i].by = "check_window_expiry"
    /\ \E i \in DOMAIN closed : closed[i].by = "process_event"
    /\ \E i \in DOMAIN closed : closed[i].by = "shutdown"

\* The end time of the open window has passed
Overdue ==
    /\ current_window # <<>>
    /\ clock >= current_window[1].end

\* No window is left open past its end, and a snapshot was built of every
\* window closed while the agent was not pausing
Settled ==
    /\ ~Overdue
    /\ \A c \in DOMAIN closed :
          closed[c].by # "pause"
             => \E i \in DOMAIN built : built[i].ids = closed[c].ids

\* C28: an open window whose end time has passed is eventually closed and
\* turned into a snapshot by the consumer loop even if no further event ever
\* arrives, provided the agent is not paused and keeps running: whenever
\* the end of the open window has passed, later no window is open past its
\* end and every window closed has its snapshot, unless the agent is paused
\* or stopped before.
C28_ExpiredWindowIsBuilt ==
    Overdue ~> (Settled \/ paused \/ consumer_pc = "stopped")

\* The end of the open window has passed, and then an expiry check of a
\* running, unpaused loop has closed it and its snapshot has been built
C28_Witness ==
    /\ consumer_pc = "running"
    /\ ~paused
    /\ current_window = <<>>
    /\ channel = <<>>
    /\ closed # <<>>
    /\ closed[Len(closed)].by = "check_window_expiry"
    /\ built # <<>>
    /\ built[Len(built)].ids = closed[Len(closed)].ids

\* The window identifiers of the snapshots of a sequence of outputs
OutputWindowIds(outs) ==
    {outs[i].snapshot.window_ids[1] : i \in DOMAIN outs}

\* C38: snapshots built by distinct build() calls of one builder carry
\* pairwise distinct window identifiers, also when several windows are
\* closed and built in quick succession (a backlog of queued events being
\* drained): when an iteration of the loop receives an event that closes a
\* window, the snapshots it builds have identifiers that differ from one
\* another and from those of the snapshots built by the iteration before it.
C38_DistinctWindowIds ==
    [][ ( /\ consumer_pc' = "running"
          /\ Len(built') > Len(built)
          /\ closed'[Len(closed')].by = "process_event" ) =>
          /\ Cardinality(OutputWindowIds(outputs')) = Len(outputs')
          /\ OutputWindowIds(outputs') \cap OutputWindowIds(outputs) = {}
    ]_vars

\* Nothing is left of what was captured: no window is open, the completed
\* set and the channel are empty, and the collector is stopped
NothingHeld ==
    /\ ~running
    /\ current_window = <<>>
    /\ completed_windows = <<>>
    /\ channel = <<>>

\* The snapshots built after the first L hold no event captured before the
\* n-th
NoEarlierEvent(n, L) ==
    \A i \in DOMAIN built :
        i > L => \A k \in DOMAIN built[i].ids : built[i].ids[k] >= n

\* C39: when the consumer loop handles a transition to paused it stops the
\* collector before it flushes and drains, so that afterwards, and for as
\* long as the agent is paused, no window is open, the completed set is
\* empty and the channel is empty, and no snapshot is built of what was
\* flushed; and no event captured before the pause is included in any
\* snapshot built after the agent has resumed.
C39_PauseDropsEverything ==
    /\ [][ (~paused /\ paused') => (stopped' /\ built' = built) ]_vars
    /\ [](paused => NothingHeld)
    /\ \A n \in 1..(MaxCaptured + 1), L \in 0..MaxCaptured :
          []( (paused /\ next_id = n /\ Len(built) = L)
                  => []NoEarlierEvent(n, L) )

\* the agent was paused with a window open, which the flush closed, has
\* resumed, and has built a snapshot of a window of events captured since
C39_Witness ==
    /\ ~paused
    /\ stopped
    /\ \E c \in DOMAIN closed : closed[c].by = "pause"
    /\ \E c \in DOMAIN closed :
          /\ closed[c].by # "pause"
          /\ \E i \in DOMAIN built : built[i].ids = closed[c].ids
          /\ \A p \in DOMAIN closed :
                closed[p].by = "pause" =>
                    \A k \in DOMAIN closed[p].ids :
                        closed[p].ids[k] < closed[c].ids[1]

(***************************************************************************)
(* Specifications                                                          *)
(***************************************************************************)

\* The window manager alone, for every configured duration and threshold
InitWindowing ==
    /\ \E d \in 0..MaxDuration, g \in 0..MaxGap : InitWM(d, g)
    /\ InitCollector("noop", [capture_keyboard |-> TRUE, capture_mouse |-> TRUE])
    /\ InitConsumer

SpecWM == InitWindowing /\ [][NextWM]_vars

\* The consumer loop fed with events of every kind, for a positive and for a
\* zero window duration
InitFeatures ==
    /\ \E d \in FxDurations : InitWM(d, FxGap)
    /\ InitCollector("noop", [capture_keyboard |-> TRUE, capture_mouse |-> TRUE])
    /\ InitConsumer

SpecFeatures == InitFeatures /\ [][NextFeatures]_vars

\* The consumer loop building the snapshot of a window of every size up to
\* MaxBusyEvents events, and of a window as EventWindow::new makes it
InitSnapshot ==
    /\ InitWM(2000, FxGap)
    /\ InitCollector("noop", [capture_keyboard |-> TRUE, capture_mouse |-> TRUE])
    /\ InitConsumer

SpecSnapshot == InitSnapshot /\ [][NextSnapshot]_vars

\* The snapshots of the consumer loop serialized by build_json
SpecJson == InitSnapshot /\ [][NextJson]_vars

\* The agent started with collection paused or not (main.rs:309-319), for
\* every window duration of the pipeline
InitPipeline ==
    /\ \E d \in PipeDurations : InitWM(d, PipeGap)
    /\ backend = "windows"
    /\ config = [capture_keyboard |-> TRUE, capture_mouse |-> TRUE]
    /\ thread_handle = <<>>
    /\ threads = <<>>
    /\ channel = <<>>
    /\ caller_pc = "idle"
    /\ join_target = <<>>
    /\ stopped = FALSE
    /\ consumer_pc = "running"
    /\ outputs = <<>>
    /\ made = <<>>
    /\ \E p \in BOOLEAN :
          /\ config_paused = p
          /\ paused = p
          /\ running = ~p
          /\ start_result = IF p THEN "none" ELSE "Ok"
    /\ clock = 0
    /\ last_window_check = 0
    /\ last_config_check = 0
    /\ closed = <<>>
    /\ built = <<>>
    /\ InitServer

SpecPipeline == InitPipeline /\ [][NextPipeline]_vars

\* The pipeline while time passes and the main loop keeps iterating: the
\* fairness of the iteration is stated on what it does to every variable
\* but outputs
FairSpecPipeline ==
    /\ InitPipeline
    /\ [][NextPipeline]_vars
    /\ WF_vars(Tick)
    /\ WF_<<wm_vars, col_vars, loop_vars>>(LoopIterationCore)

\* Calls of the event constructors with every pair of deltas
InitConstructors ==
    /\ InitWM(MaxDuration, MaxGap)
    /\ InitCollector("noop", [capture_keyboard |-> TRUE, capture_mouse |-> TRUE])
    /\ consumer_pc = "running"
    /\ outputs = <<>>
    /\ InitLoop
    /\ InitServer
    /\ InitScroll

SpecConstructors == InitConstructors /\ [][NextConstructors]_vars

\* The ingest server answering requests of every outcome
InitIngest ==
    /\ InitWM(MaxDuration, MaxGap)
    /\ InitCollector("noop", [capture_keyboard |-> TRUE, capture_mouse |-> TRUE])
    /\ InitConsumer

SpecServer == InitIngest /\ [][NextServer]_vars

\* The callbacks of the native backends, called with every input
InitNative ==
    /\ InitWM(MaxDuration, MaxGap)
    /\ InitCollector("noop", [capture_keyboard |-> TRUE, capture_mouse |-> TRUE])
    /\ consumer_pc = "running"
    /\ outputs = <<>>
    /\ InitLoop
    /\ InitServer
    /\ InitCallbacks

SpecCallbacks == InitNative /\ [][NextCallbacks]_vars

\* A collector of every backend, with its caller, in every configuration
\* the agent runs one in: main.rs:169-174 exits when no source is enabled
InitCapture ==
    /\ InitWM(MaxDuration, MaxGap)
    /\ \E b \in Backends, c \in Configs :
          /\ EnabledSources(c) # {}
          /\ InitCollector(b, c)
    /\ InitConsumer

SpecCollector == InitCapture /\ [][NextCollector]_vars

\* The scheduler runs every live thread, and the caller goes on inside
\* stop(); nothing obliges the environment to post a message or to produce
\* input.
FairSpecCollector ==
    /\ SpecCollector
    /\ \A tid \in 1..MaxThreads : WF_vars(tid \in DOMAIN threads /\ ThreadStep(tid))
    /\ WF_vars(StopStore \/ StopJoin)

====
